---------------------------- MODULE Spec2Model ----------------------------
(***************************************************************************)
(* Untrusted Content Ingestion Guard of the pentest-report backend:        *)
(*   - the file-type verifier  (backend/app/core/file_validation.py)       *)
(*   - the upload routes       (backend/app/api/routes/uploads.py)         *)
(*   - the markup sanitizer    (backend/app/services/rich_text_service.py) *)
(*   - the finding and report routes that store rich text                  *)
(*                             (backend/app/api/routes/findings.py,        *)
(*                              reports.py, imports.py)                    *)
(*   - the in-memory rate limiter (backend/app/core/rate_limit.py)         *)
(*                                                                         *)
(* Bytes are integers 0..255 and a bytes object is a sequence of them.     *)
(* Text is a sequence of code points.  An Optional value is a sequence of  *)
(* length at most one: None is << >> and a present value v is << v >>.     *)
(***************************************************************************)
EXTENDS Integers, Sequences, FiniteSets, TLC

VARIABLES
    call,      \* the request being served: the operation and its arguments
    ret,       \* what the operation returned (or the HTTP response)
    files,     \* the upload directory: the files in it, [name, content]
    evidence,  \* the evidence table: the records in it
    uuids,     \* how many unique names and record ids have been drawn
    findings,  \* the finding table: the rows in it
    reports,   \* the report table: the rows in it
    now,       \* time.time(), in seconds
    requests,  \* InMemoryRateLimiter.requests: key -> timestamps
    last_cleanup,  \* InMemoryRateLimiter.last_cleanup
    log,       \* the is_allowed calls made so far, with their answers
    redis,     \* the sorted sets of the Redis limiter: key -> members, expiry
    creditBalance,  \* the creditBalance column of the organization's row
    aiusagelog,     \* the aiusagelog table: the rows in it
    ai,        \* the generate_ai_content requests: where each one stands
    hooks      \* the webhook events being processed: where each one stands

uploads == <<files, evidence, uuids>>
records == <<findings, reports>>
limiter == <<now, requests, last_cleanup, log, redis>>
credits == <<creditBalance, aiusagelog, ai, hooks>>

vars == <<call, ret, uploads, records, limiter, credits>>

---------------------------------------------------------------------------
(* Text and bytes literals.                                                *)

\* The printable ASCII characters 32..95 and 97..126, in code order
\* (the grave accent, 96, cannot be written in a string literal).
AsciiLow == " !\"#$%&'()*+,-./0123456789:;<=>?@ABCDEFGHIJKLMNOPQRSTUVWXYZ[\\]^_"
AsciiHigh == "abcdefghijklmnopqrstuvwxyz{|}~"

Ord(c) ==
    IF \E i \in 1..Len(AsciiLow) : SubSeq(AsciiLow, i, i) = c
    THEN 31 + (CHOOSE i \in 1..Len(AsciiLow) : SubSeq(AsciiLow, i, i) = c)
    ELSE 96 + (CHOOSE i \in 1..Len(AsciiHigh) : SubSeq(AsciiHigh, i, i) = c)

\* The code points (equally: the ASCII bytes) of a literal.
S(lit) == [i \in 1..Len(lit) |-> Ord(SubSeq(lit, i, i))]

None == << >>
Some(v) == << v >>

Min(a, b) == IF a < b THEN a ELSE b
Max(a, b) == IF a > b THEN a ELSE b

---------------------------------------------------------------------------
(* The Python built-ins the code uses.                                     *)

\* s[a:b] with 0 <= a: the elements of index a .. b-1 (0-based), clipped to s.
Slice(s, a, b) == SubSeq(s, a + 1, Min(b, Len(s)))

\* str.lower() / bytes.lower() on one code point (ASCII and Latin-1 capitals).
LowerChar(c) ==
    IF c >= 65 /\ c <= 90 THEN c + 32
    ELSE IF c >= 192 /\ c <= 222 /\ c # 215 THEN c + 32
    ELSE c

lower(s) == [i \in 1..Len(s) |-> LowerChar(s[i])]

\* s.startswith(p)
startswith(s, p) == Len(s) >= Len(p) /\ SubSeq(s, 1, Len(p)) = p

\* p in s, for sequences: p occurs as a contiguous run of s.
contains(s, p) ==
    \E i \in 0..(Len(s) - Len(p)) : SubSeq(s, i + 1, i + Len(p)) = p

\* s.lstrip(chars) for a one-character set: drop the leading run of ch.
RECURSIVE lstrip(_, _)
lstrip(s, ch) ==
    IF s # << >> /\ Head(s) = ch THEN lstrip(Tail(s), ch) ELSE s

\* Whitespace of str.strip() and of \s: space, \t \n \v \f \r, the separators
\* 28..31, NEL and the no-break space.
IsSpace(c) == c = 32 \/ (c >= 9 /\ c <= 13) \/ (c >= 28 /\ c <= 31) \/ c = 133 \/ c = 160

RECURSIVE lstrip_ws(_)
lstrip_ws(s) ==
    IF s # << >> /\ IsSpace(Head(s)) THEN lstrip_ws(Tail(s)) ELSE s

RECURSIVE rstrip_ws(_)
rstrip_ws(s) ==
    IF s # << >> /\ IsSpace(s[Len(s)]) THEN rstrip_ws(SubSeq(s, 1, Len(s) - 1)) ELSE s

strip(s) == rstrip_ws(lstrip_ws(s))

\* The 0-based index of the last ch in s, or -1: s.rfind(ch).
rfind(s, ch) ==
    IF \E i \in 1..Len(s) : s[i] = ch
    THEN (CHOOSE i \in 1..Len(s) : s[i] = ch /\ \A j \in (i + 1)..Len(s) : s[j] # ch) - 1
    ELSE -1

\* s.rsplit('.', 1)[1] for a string that contains ch: the text after the last ch.
rsplit_last(s, ch) == SubSeq(s, rfind(s, ch) + 2, Len(s))

\* The number of continuation bytes (128..191) at b[i+1 ..], at most want.
RECURSIVE ContinuationRun(_, _, _)
ContinuationRun(b, i, want) ==
    IF want = 0 \/ i + 1 > Len(b) THEN 0
    ELSE IF b[i + 1] >= 128 /\ b[i + 1] <= 191
         THEN 1 + ContinuationRun(b, i + 1, want - 1)
         ELSE 0

\* bytes.decode('utf-8', errors='ignore') from 1-based position i: well-formed
\* sequences of one to four bytes give their code point, every byte that is
\* not part of one is dropped.
RECURSIVE decode_from(_, _)
decode_from(b, i) ==
    IF i > Len(b) THEN << >>
    ELSE LET c == b[i]
             need == IF c < 128 THEN 0
                     ELSE IF c >= 194 /\ c <= 223 THEN 1
                     ELSE IF c >= 224 /\ c <= 239 THEN 2
                     ELSE IF c >= 240 /\ c <= 244 THEN 3
                     ELSE -1
             \* the second byte's narrower range after E0, ED, F0 and F4
             secondOk == IF i + 1 > Len(b) THEN FALSE
                         ELSE LET d == b[i + 1] IN
                              IF c = 224 THEN d >= 160 /\ d <= 191
                              ELSE IF c = 237 THEN d >= 128 /\ d <= 159
                              ELSE IF c = 240 THEN d >= 144 /\ d <= 191
                              ELSE IF c = 244 THEN d >= 128 /\ d <= 143
                              ELSE d >= 128 /\ d <= 191
             got == IF need <= 0 THEN 0
                    ELSE IF ~secondOk THEN 0
                    ELSE ContinuationRun(b, i, need)
         IN  IF need = 0 THEN <<c>> \o decode_from(b, i + 1)
             ELSE IF need = -1 THEN decode_from(b, i + 1)
             ELSE IF got < need THEN decode_from(b, i + 1 + got)
             ELSE LET cp == IF need = 1 THEN (c - 192) * 64 + (b[i + 1] - 128)
                            ELSE IF need = 2
                                 THEN (c - 224) * 4096 + (b[i + 1] - 128) * 64
                                      + (b[i + 2] - 128)
                                 ELSE (c - 240) * 262144 + (b[i + 1] - 128) * 4096
                                      + (b[i + 2] - 128) * 64 + (b[i + 3] - 128)
                  IN  <<cp>> \o decode_from(b, i + 1 + need)

decode_utf8_ignore(b) == decode_from(b, 1)

---------------------------------------------------------------------------
(* file_validation.py: the signature table.                                *)

BOM == <<239, 187, 191>>
PNG_SIG == <<137>> \o S("PNG") \o <<13, 10, 26, 10>>
JPEG_SIGS ==
    << <<<<255, 216, 255, 224>>, 0>>,
       <<<<255, 216, 255, 225>>, 0>>,
       <<<<255, 216, 255, 232>>, 0>>,
       <<<<255, 216, 255, 219>>, 0>>,
       <<<<255, 216, 255, 238>>, 0>> >>
XML_UTF16_LE == <<255, 254, 60, 0, 63, 0, 120, 0, 109, 0, 108>>
XML_UTF16_BE == <<254, 255, 0, 60, 0, 63, 0, 120, 0, 109, 0, 108>>
RIFF == S("RIFF")
WEBP == S("WEBP")

\* Literals of the functions below.
DOT == Ord(".")
EXT_WEBP == S("webp")
EXT_TXT == S("txt")
EXT_SVG == S("svg")
MIME_TEXT_PLAIN == S("text/plain")

\* The dict in insertion order: entry i is the i-th key with its value; a
\* signature is a pair <<magic bytes, offset>>.
MAGIC_SIGNATURES ==
    << [ext |-> S("png"), mime |-> S("image/png"),
        signatures |-> << <<PNG_SIG, 0>> >>],
       [ext |-> S("jpg"), mime |-> S("image/jpeg"), signatures |-> JPEG_SIGS],
       [ext |-> S("jpeg"), mime |-> S("image/jpeg"), signatures |-> JPEG_SIGS],
       [ext |-> S("gif"), mime |-> S("image/gif"),
        signatures |-> << <<S("GIF87a"), 0>>, <<S("GIF89a"), 0>> >>],
       [ext |-> S("webp"), mime |-> S("image/webp"),
        signatures |-> << <<RIFF, 0>> >>],
       [ext |-> S("svg"), mime |-> S("image/svg+xml"),
        signatures |-> << <<S("<?xml"), 0>>, <<S("<svg"), 0>>,
                          <<BOM \o S("<?xml"), 0>>, <<BOM \o S("<svg"), 0>> >>],
       [ext |-> S("pdf"), mime |-> S("application/pdf"),
        signatures |-> << <<S("%PDF-"), 0>> >>],
       [ext |-> S("xml"), mime |-> S("application/xml"),
        signatures |-> << <<S("<?xml"), 0>>, <<BOM \o S("<?xml"), 0>>,
                          <<XML_UTF16_LE, 0>>, <<XML_UTF16_BE, 0>> >>],
       [ext |-> S("nessus"), mime |-> S("application/xml"),
        signatures |-> << <<S("<?xml"), 0>>, <<BOM \o S("<?xml"), 0>> >>],
       [ext |-> S("txt"), mime |-> S("text/plain"), signatures |-> << >>] >>

SignatureKeys == {MAGIC_SIGNATURES[i].ext : i \in 1..Len(MAGIC_SIGNATURES)}

\* MAGIC_SIGNATURES.get(ext): the entry of key ext, or None.
signatures_get(ext) ==
    IF ext \in SignatureKeys
    THEN Some(MAGIC_SIGNATURES[CHOOSE i \in 1..Len(MAGIC_SIGNATURES) :
                                   MAGIC_SIGNATURES[i].ext = ext])
    ELSE None

\* len(content) >= offset + len(signature)
\*   and content[offset:offset + len(signature)] == signature
signature_at(content, sig) ==
    /\ Len(content) >= sig[2] + Len(sig[1])
    /\ Slice(content, sig[2], sig[2] + Len(sig[1])) = sig[1]

TXT_SCAN == 1024

---------------------------------------------------------------------------
(* file_validation.py: detect_file_type, validate_magic_bytes,             *)
(* is_safe_image, validate_upload.                                         *)

\* The inner loop of detect_file_type over the signatures of entry e, from
\* signature j on: TRUE when the loop body reaches "return ext".
RECURSIVE detect_entry(_, _, _)
detect_entry(content, e, j) ==
    IF j > Len(MAGIC_SIGNATURES[e].signatures) THEN FALSE
    ELSE IF signature_at(content, MAGIC_SIGNATURES[e].signatures[j])
         THEN IF /\ MAGIC_SIGNATURES[e].ext = EXT_WEBP
                 /\ Len(content) >= 12
                 /\ Slice(content, 8, 12) # WEBP
              THEN detect_entry(content, e, j + 1)
              ELSE TRUE
         ELSE detect_entry(content, e, j + 1)

\* The outer loop of detect_file_type, from entry e on.
RECURSIVE detect_from(_, _)
detect_from(content, e) ==
    IF e > Len(MAGIC_SIGNATURES) THEN None
    ELSE IF detect_entry(content, e, 1) THEN Some(MAGIC_SIGNATURES[e].ext)
         ELSE detect_from(content, e + 1)

\* detect_file_type that scans the table from its last entry to its first.
RECURSIVE detect_back_from(_, _)
detect_back_from(content, e) ==
    IF e < 1 THEN None
    ELSE IF detect_entry(content, e, 1) THEN Some(MAGIC_SIGNATURES[e].ext)
         ELSE detect_back_from(content, e - 1)

detect_file_type_last_wins(content) ==
    detect_back_from(content, Len(MAGIC_SIGNATURES))

detect_file_type(content) == detect_from(content, 1)

\* The signature loop of validate_magic_bytes from signature j on, with what
\* follows it when no signature returns.
RECURSIVE check_signatures(_, _, _, _)
\* check_signatures that tries the first signature of an extension only.
check_signatures_first_only(content, ext, sig_info, j) ==
    IF j > 1 THEN <<FALSE, detect_file_type(content)>>
    ELSE IF signature_at(content, sig_info.signatures[j])
         THEN IF ext = EXT_WEBP
              THEN IF Len(content) >= 12 /\ Slice(content, 8, 12) = WEBP
                   THEN <<TRUE, Some(sig_info.mime)>>
                   ELSE check_signatures(content, ext, sig_info, j + 1)
              ELSE <<TRUE, Some(sig_info.mime)>>
         ELSE check_signatures(content, ext, sig_info, j + 1)

\* check_signatures without the WEBP check at offset 8.
check_signatures_riff_only(content, ext, sig_info, j) ==
    IF j > Len(sig_info.signatures) THEN <<FALSE, detect_file_type(content)>>
    ELSE IF signature_at(content, sig_info.signatures[j])
         THEN <<TRUE, Some(sig_info.mime)>>
         ELSE check_signatures(content, ext, sig_info, j + 1)

check_signatures(content, ext, sig_info, j) ==
    IF j > Len(sig_info.signatures) THEN <<FALSE, detect_file_type(content)>>
    ELSE IF signature_at(content, sig_info.signatures[j])
         THEN IF ext = EXT_WEBP
              THEN IF Len(content) >= 12 /\ Slice(content, 8, 12) = WEBP
                   THEN <<TRUE, Some(sig_info.mime)>>
                   ELSE check_signatures(content, ext, sig_info, j + 1)
              ELSE <<TRUE, Some(sig_info.mime)>>
         ELSE check_signatures(content, ext, sig_info, j + 1)

\* ext = claimed_extension.lower().lstrip('.')
normalise_ext(claimed_extension) == lstrip(lower(claimed_extension), DOT)

\* validate_magic_bytes that guesses the type of a file whose extension is
\* not in the table, instead of refusing it.
validate_magic_bytes_guessing(content, claimed_extension) ==
    LET ext == normalise_ext(claimed_extension)
        sig_info == signatures_get(ext)
    IN  IF sig_info = None
        THEN <<detect_file_type(content) # None, detect_file_type(content)>>
        ELSE IF sig_info[1].signatures = << >>
             THEN IF ext = EXT_TXT
                  THEN IF \E i \in 1..Min(TXT_SCAN, Len(content)) : content[i] = 0
                       THEN <<FALSE, None>>
                       ELSE <<TRUE, Some(MIME_TEXT_PLAIN)>>
                  ELSE <<FALSE, None>>
             ELSE check_signatures(content, ext, sig_info[1], 1)

\* validate_magic_bytes that looks for a NUL byte in the whole content.
validate_magic_bytes_whole_content(content, claimed_extension) ==
    LET ext == normalise_ext(claimed_extension)
        sig_info == signatures_get(ext)
    IN  IF sig_info = None THEN <<FALSE, None>>
        ELSE IF sig_info[1].signatures = << >>
             THEN IF ext = EXT_TXT
                  THEN IF \E i \in 1..Len(content) : content[i] = 0
                       THEN <<FALSE, None>>
                       ELSE <<TRUE, Some(MIME_TEXT_PLAIN)>>
                  ELSE <<FALSE, None>>
             ELSE check_signatures(content, ext, sig_info[1], 1)

validate_magic_bytes(content, claimed_extension) ==
    LET ext == normalise_ext(claimed_extension)
        sig_info == signatures_get(ext)
    IN  IF sig_info = None THEN <<FALSE, None>>
        ELSE IF sig_info[1].signatures = << >>
             THEN IF ext = EXT_TXT
                  THEN IF \E i \in 1..Min(TXT_SCAN, Len(content)) : content[i] = 0
                       THEN <<FALSE, None>>
                       ELSE <<TRUE, Some(MIME_TEXT_PLAIN)>>
                  ELSE <<FALSE, None>>
             ELSE check_signatures(content, ext, sig_info[1], 1)

allowed_images == {S("png"), S("jpg"), S("jpeg"), S("gif"), S("webp"), S("svg")}

dangerous_patterns ==
    << S("<script"), S("javascript:"), S("onerror="), S("onload="),
       S("onclick="), S("<foreignobject") >>

\* The loop over dangerous_patterns from pattern k on: the first pattern that
\* occurs in content_str, or None.
RECURSIVE first_dangerous(_, _)
first_dangerous(content_str, k) ==
    IF k > Len(dangerous_patterns) THEN None
    ELSE IF contains(content_str, dangerous_patterns[k])
         THEN Some(dangerous_patterns[k])
         ELSE first_dangerous(content_str, k + 1)

MSG_OK == S("OK")
MSG_NOT_IMAGE_1 == S("Extension '")
MSG_NOT_IMAGE_2 == S("' is not an allowed image type")
MSG_DETECTED_1 == S("File content doesn't match extension (detected: ")
MSG_CLOSE == S(")")
MSG_NOT_CLAIMED == S("File content doesn't match claimed image type")
MSG_DANGEROUS == S("SVG contains potentially dangerous content: ")

\* is_safe_image whose SVG scan does not lower-case the content.
is_safe_image_case_sensitive(content, claimed_extension) ==
    LET ext == normalise_ext(claimed_extension)
        r == validate_magic_bytes(content, ext)
        found == first_dangerous(decode_utf8_ignore(content), 1)
    IN  IF ext \notin allowed_images
        THEN <<FALSE, MSG_NOT_IMAGE_1 \o ext \o MSG_NOT_IMAGE_2>>
        ELSE IF ~r[1]
             THEN IF r[2] # None /\ r[2][1] # << >>
                  THEN <<FALSE, MSG_DETECTED_1 \o r[2][1] \o MSG_CLOSE>>
                  ELSE <<FALSE, MSG_NOT_CLAIMED>>
             ELSE IF ext = EXT_SVG /\ found # None
                  THEN <<FALSE, MSG_DANGEROUS \o found[1]>>
                  ELSE <<TRUE, MSG_OK>>

is_safe_image(content, claimed_extension) ==
    LET ext == normalise_ext(claimed_extension)
        r == validate_magic_bytes(content, ext)
        found == first_dangerous(lower(decode_utf8_ignore(content)), 1)
    IN  IF ext \notin allowed_images
        THEN <<FALSE, MSG_NOT_IMAGE_1 \o ext \o MSG_NOT_IMAGE_2>>
        ELSE IF ~r[1]
             THEN IF r[2] # None /\ r[2][1] # << >>
                  THEN <<FALSE, MSG_DETECTED_1 \o r[2][1] \o MSG_CLOSE>>
                  ELSE <<FALSE, MSG_NOT_CLAIMED>>
             ELSE IF ext = EXT_SVG /\ found # None
                  THEN <<FALSE, MSG_DANGEROUS \o found[1]>>
                  ELSE <<TRUE, MSG_OK>>

MSG_NO_EXTENSION == S("File must have an extension")
MSG_UNVERIFIED == S("Could not verify file type - content doesn't match extension")
MSG_NOT_ALLOWED_1 == S("File type '.")
MSG_NOT_ALLOWED_2 == S("' is not allowed")
MSG_APPEARS_1 == S("File content doesn't match extension (appears to be ")
msg_not_allowed(ext) == MSG_NOT_ALLOWED_1 \o ext \o MSG_NOT_ALLOWED_2
msg_mismatch(detected) == MSG_APPEARS_1 \o detected \o MSG_CLOSE

\* validate_upload that does not lower-case the filename's extension.
validate_upload_case_sensitive(content, filename, allowed_extensions) ==
    IF DOT \notin {filename[i] : i \in 1..Len(filename)}
    THEN <<FALSE, MSG_NO_EXTENSION>>
    ELSE LET ext == rsplit_last(filename, DOT)
             r == validate_magic_bytes(content, ext)
         IN  IF ext \notin allowed_extensions
             THEN <<FALSE, msg_not_allowed(ext)>>
             ELSE IF ~r[1]
                  THEN IF r[2] # None /\ r[2][1] # << >>
                       THEN <<FALSE, msg_mismatch(r[2][1])>>
                       ELSE <<FALSE, MSG_UNVERIFIED>>
                  ELSE <<TRUE, MSG_OK>>

validate_upload(content, filename, allowed_extensions) ==
    IF DOT \notin {filename[i] : i \in 1..Len(filename)}
    THEN <<FALSE, MSG_NO_EXTENSION>>
    ELSE LET ext == lower(rsplit_last(filename, DOT))
             r == validate_magic_bytes(content, ext)
         IN  IF ext \notin allowed_extensions
             THEN <<FALSE, msg_not_allowed(ext)>>
             ELSE IF ~r[1]
                  THEN IF r[2] # None /\ r[2][1] # << >>
                       THEN <<FALSE, msg_mismatch(r[2][1])>>
                       ELSE <<FALSE, MSG_UNVERIFIED>>
                  ELSE <<TRUE, MSG_OK>>

---------------------------------------------------------------------------
(* uploads.py: sanitize_svg.  Each re.sub is modelled by the length of the *)
(* match its pattern has at a position (0: none) and the replacement text; *)
(* the patterns leave the regex engine no choice, so the first match found *)
(* by backtracking is the one computed here.  Case-insensitive matching is *)
(* that of the ASCII letters.                                              *)

\* \w of the re module on str: letters, digits and '_'.
IsWord(c) ==
    \/ c >= 48 /\ c <= 57
    \/ c >= 65 /\ c <= 90
    \/ c >= 97 /\ c <= 122
    \/ c = 95
    \/ c >= 192 /\ c <= 255 /\ c # 215 /\ c # 247

QUOTES == {34, 39}
GT == 62
EQUALS == 61

\* The literal lit (lower-case) stands at 1-based position i of text, in any
\* letter case.
CiAt(text, i, lit) ==
    /\ i >= 1
    /\ i + Len(lit) - 1 <= Len(text)
    /\ \A k \in 1..Len(lit) : LowerChar(text[i + k - 1]) = lit[k]

\* The length of the longest run of whitespace at position i.
RECURSIVE SpaceRun(_, _)
SpaceRun(text, i) ==
    IF i <= Len(text) /\ IsSpace(text[i]) THEN 1 + SpaceRun(text, i + 1) ELSE 0

RECURSIVE WordRun(_, _)
WordRun(text, i) ==
    IF i <= Len(text) /\ IsWord(text[i]) THEN 1 + WordRun(text, i + 1) ELSE 0

\* The longest run at i of characters that are not in stop and, with
\* noSpace, not whitespace.
RECURSIVE RunUntil(_, _, _, _)
RunUntil(text, i, stop, noSpace) ==
    IF i <= Len(text) /\ text[i] \notin stop /\ ~(noSpace /\ IsSpace(text[i]))
    THEN 1 + RunUntil(text, i + 1, stop, noSpace)
    ELSE 0

\* The first position >= i where lit stands (any letter case), or 0.
RECURSIVE FirstCi(_, _, _)
FirstCi(text, i, lit) ==
    IF i + Len(lit) - 1 > Len(text) THEN 0
    ELSE IF CiAt(text, i, lit) THEN i
    ELSE FirstCi(text, i + 1, lit)

OptionalQuote(text, i) == IF i <= Len(text) /\ text[i] \in QUOTES THEN 1 ELSE 0

\* <open[^>]*>.*?<close> at i, with DOTALL: the opening name, the first '>'
\* after it, and the first closing tag after that.
BlockLen(text, i, open, close) ==
    IF ~CiAt(text, i, open) THEN 0
    ELSE LET g == i + Len(open) + RunUntil(text, i + Len(open), {GT}, FALSE)
             e == IF g > Len(text) THEN 0 ELSE FirstCi(text, g + 1, close)
         IN  IF e = 0 THEN 0 ELSE e + Len(close) - i

LIT_ON == S("on")

\* \s+on\w+\s*= at i: the position after the '=', or 0.
HandlerHead(text, i) ==
    LET ws == SpaceRun(text, i)
        j == i + ws
        w == WordRun(text, j + 2)
        k == j + 2 + w
        eq == k + SpaceRun(text, k)
    IN  IF ws >= 1 /\ CiAt(text, j, LIT_ON) /\ w >= 1
           /\ eq <= Len(text) /\ text[eq] = EQUALS
        THEN eq + 1
        ELSE 0

\* \s+on\w+\s*=\s*["'][^"']*["'] at i
QuotedHandlerLen(text, i) ==
    LET h == HandlerHead(text, i)
        q == h + SpaceRun(text, h)
        close == q + 1 + RunUntil(text, q + 1, QUOTES, FALSE)
    IN  IF h = 0 THEN 0
        ELSE IF q <= Len(text) /\ text[q] \in QUOTES /\ close <= Len(text)
             THEN close + 1 - i
             ELSE 0

\* \s+on\w+\s*=\s*[^\s>]+ at i
BareHandlerLen(text, i) ==
    LET h == HandlerHead(text, i)
        v == h + SpaceRun(text, h)
        n == RunUntil(text, v, {GT}, TRUE)
    IN  IF h = 0 \/ n = 0 THEN 0 ELSE v + n - i

\* The first of the attribute names (lower-case) that stands at i, or << >>.
RECURSIVE NameAt(_, _, _, _)
NameAt(text, i, names, k) ==
    IF k > Len(names) THEN << >>
    ELSE IF CiAt(text, i, names[k]) THEN names[k]
    ELSE NameAt(text, i, names, k + 1)

\* \s*=\s*["']?\s* at i: the position after it, or 0.
AssignHead(text, i) ==
    LET eq == i + SpaceRun(text, i)
        q == eq + 1 + SpaceRun(text, eq + 1)
        v == q + OptionalQuote(text, q)
    IN  IF eq <= Len(text) /\ text[eq] = EQUALS
        THEN v + SpaceRun(text, v)
        ELSE 0

URL_STOP == QUOTES \cup {GT}

\* (names)\s*=\s*["']?\s*scheme(?!unless)[^"'>\s]*["']? at i; unless is << >>
\* when the pattern has no lookahead.
SchemeAttrLen(text, i, names, scheme, unless) ==
    LET name == NameAt(text, i, names, 1)
        v == AssignHead(text, i + Len(name))
        rest == v + Len(scheme)
        stop == rest + RunUntil(text, rest, URL_STOP, TRUE)
    IN  IF name = << >> \/ v = 0 THEN 0
        ELSE IF CiAt(text, v, scheme) /\ (unless = << >> \/ ~CiAt(text, rest, unless))
             THEN stop + OptionalQuote(text, stop) - i
             ELSE 0

LIT_XLINK_HREF == S("xlink:href")
LIT_USE == S("<use")
LIT_HTTP == S("http://")
LIT_HTTPS == S("https://")
LIT_SLASHES == S("//")

\* xlink:href\s*=\s*["']?(https?://|//) at p
ExternalRefAt(text, p) ==
    LET eq == p + Len(LIT_XLINK_HREF) + SpaceRun(text, p + Len(LIT_XLINK_HREF))
        q == eq + 1 + SpaceRun(text, eq + 1)
        v == q + OptionalQuote(text, q)
    IN  /\ CiAt(text, p, LIT_XLINK_HREF)
        /\ eq <= Len(text) /\ text[eq] = EQUALS
        /\ (CiAt(text, v, LIT_HTTP) \/ CiAt(text, v, LIT_HTTPS)
              \/ CiAt(text, v, LIT_SLASHES))

\* <use[^>]*xlink:href\s*=\s*["']?(https?://|//)[^"'>\s]*["']?[^>]*> at i:
\* the tag up to its first '>', when an external reference stands in it.
ExternalUseLen(text, i) ==
    IF ~CiAt(text, i, LIT_USE) THEN 0
    ELSE LET g == i + 4 + RunUntil(text, i + 4, {GT}, FALSE)
         IN  IF g <= Len(text) /\ \E p \in (i + 4)..(g - 1) : ExternalRefAt(text, p)
             THEN g + 1 - i
             ELSE 0

LIT_SCRIPT_OPEN == S("<script")
LIT_SCRIPT_CLOSE == S("</script>")
LIT_FOREIGN_OPEN == S("<foreignobject")
LIT_FOREIGN_CLOSE == S("</foreignobject>")
LIT_JAVASCRIPT == S("javascript:")
LIT_DATA == S("data:")
LIT_IMAGE == S("image")
JS_ATTRS == << S("href"), S("src"), LIT_XLINK_HREF >>
DATA_ATTRS == << S("href"), LIT_XLINK_HREF >>
EMPTY_VALUE == <<61, 34, 34>>

\* The seven substitutions of sanitize_svg, in the order they are applied.
SvgMatchLen(rx, text, i) ==
    CASE rx = 1 -> BlockLen(text, i, LIT_SCRIPT_OPEN, LIT_SCRIPT_CLOSE)
      [] rx = 2 -> QuotedHandlerLen(text, i)
      [] rx = 3 -> BareHandlerLen(text, i)
      [] rx = 4 -> SchemeAttrLen(text, i, JS_ATTRS, LIT_JAVASCRIPT, << >>)
      [] rx = 5 -> SchemeAttrLen(text, i, DATA_ATTRS, LIT_DATA, LIT_IMAGE)
      [] rx = 6 -> BlockLen(text, i, LIT_FOREIGN_OPEN, LIT_FOREIGN_CLOSE)
      [] rx = 7 -> ExternalUseLen(text, i)

\* The replacement of a match at i: '' or r'\1=""' (group 1 as it is written
\* in text).
SvgReplacement(rx, text, i) ==
    IF rx = 4 THEN SubSeq(text, i, i + Len(NameAt(text, i, JS_ATTRS, 1)) - 1)
                     \o EMPTY_VALUE
    ELSE IF rx = 5 THEN SubSeq(text, i, i + Len(NameAt(text, i, DATA_ATTRS, 1)) - 1)
                          \o EMPTY_VALUE
    ELSE << >>

\* re.sub(pattern rx, replacement, text) from position i on: the leftmost
\* matches, not overlapping.
RECURSIVE re_sub(_, _, _)
re_sub(rx, text, i) ==
    IF i > Len(text) THEN << >>
    ELSE LET n == SvgMatchLen(rx, text, i)
         IN  IF n > 0 THEN SvgReplacement(rx, text, i) \o re_sub(rx, text, i + n)
             ELSE <<text[i]>> \o re_sub(rx, text, i + 1)

\* str.encode('utf-8') of one code point.
EncodeChar(c) ==
    IF c < 128 THEN <<c>>
    ELSE IF c < 2048 THEN <<192 + (c \div 64), 128 + (c % 64)>>
    ELSE IF c < 65536
         THEN <<224 + (c \div 4096), 128 + ((c \div 64) % 64), 128 + (c % 64)>>
         ELSE <<240 + (c \div 262144), 128 + ((c \div 4096) % 64),
                128 + ((c \div 64) % 64), 128 + (c % 64)>>

RECURSIVE encode_utf8(_)
encode_utf8(text) ==
    IF text = << >> THEN << >> ELSE EncodeChar(Head(text)) \o encode_utf8(Tail(text))

RECURSIVE svg_passes(_, _)
svg_passes(text, rx) ==
    IF rx > 7 THEN text ELSE svg_passes(re_sub(rx, text, 1), rx + 1)

sanitize_svg(content) == encode_utf8(svg_passes(decode_utf8_ignore(content), 1))

---------------------------------------------------------------------------
(* The inputs of the file-type verifier.                                   *)

\* The longest run of filler bytes between a head and what follows it.
MaxPad == 4

SeqToSet(q) == {q[i] : i \in 1..Len(q)}

SignatureBytes ==
    UNION {{MAGIC_SIGNATURES[i].signatures[j][1] :
                j \in 1..Len(MAGIC_SIGNATURES[i].signatures)} :
           i \in 1..Len(MAGIC_SIGNATURES)}

\* A signature cut one byte short, and one with its last byte replaced.
BrokenHeads ==
    {SubSeq(g, 1, Len(g) - 1) : g \in SignatureBytes}
        \cup {SubSeq(g, 1, Len(g) - 1) \o S("!") : g \in SignatureBytes}

Heads == SignatureBytes \cup {<< >>, S("MZ"), S("<?php")}

Markers ==
    { << >>, S("A"), <<0>>, <<195, 137>>,
      S("<script>"), S("<SCRIPT>"), S("JavaScript:alert(1)"), S(" onerror=x"),
      S("onload="), S("OnClick="), S("<foreignObject>"),
      S("<scr") \o <<255>> \o S("ipt>"),
      S(" onload=x <script>"), S("<foreignobject onclick=") }

FILLER == Ord("J")
Pad(k) == [i \in 1..k |-> FILLER]

Contents ==
    {h \o m : h \in Heads, m \in Markers}
        \cup BrokenHeads
        \cup {h \o Pad(k) \o t : h \in {RIFF, S("RIFX"), << >>}, k \in 0..MaxPad,
                                 t \in {WEBP, S("WAVE"), S("WEBPVP8 "), << >>}}

\* Contents that reach beyond the bytes the txt rule reads: a NUL byte as
\* the last byte read, as the first byte not read, and none.
LongContents ==
    { Pad(TXT_SCAN - 1) \o <<0>>, Pad(TXT_SCAN) \o <<0>>, Pad(TXT_SCAN + 1),
      Pad(TXT_SCAN - 1) \o <<0, 0>> }

\* Claimed extensions: every key, spellings that normalise to a key, and
\* extensions that are not in the table.
UnknownExtensions ==
    {S("exe"), S("EXE"), S("php"), S("tar.gz"), S(".exe"), << >>, S("svgz"), S("x.png")}

ClaimedExtensions ==
    SignatureKeys \cup UnknownExtensions
        \cup {S("PNG"), S(".png"), S("..WebP"), S("Svg"), S(".JPG"), S("TXT"), S(".")}

Filenames ==
    { S("noext"), << >>, S("photo.png"), S("photo.PNG"), S("a.b.jpg"), S("pic.Jpeg"),
      S("image.gif"), S("w.webp"), S("v.SVG"), S("doc.pdf"), S("scan.xml"),
      S("scan.Nessus"), S("notes.txt"), S("file."), S(".gif"), S("file.exe") }

\* settings.ALLOWED_EXTENSIONS
ALLOWED_EXTENSIONS ==
    {S("png"), S("jpg"), S("jpeg"), S("gif"), S("pdf"), S("xml"), S("nessus"), S("txt")}

AllowedSets == {ALLOWED_EXTENSIONS, {S("png"), S("jpg")}, allowed_images}

\* The calls validate_upload(content, filename, allowed_extensions) made: a
\* filename against a caller's set, and "file." + ext against the set {ext}.
UploadArguments ==
    {<<f, a>> : f \in Filenames, a \in AllowedSets}
        \cup {<<S("file.") \o e, {e}>> : e \in UnknownExtensions \cup {S("png"), S("WEBP")}}

---------------------------------------------------------------------------
(* Credits (ai.py, webhooks.py, billing.py).  The database holds one       *)
(* organization; a new organization is on the FREE plan.                   *)

\* The requests and the webhook events served at the same time, at most.
MaxAiRequests == 2
MaxEvents == 2

AiRequests == 1..MaxAiRequests
Events == 1..MaxEvents

\* PLAN_CREDITS["FREE"]
FREE_CREDITS == 10

---------------------------------------------------------------------------
(* The state machine.  The verifier's functions are pure: a behaviour is   *)
(* one call, from the idle state, on arguments drawn from the sets above.  *)

Init ==
    /\ call = [op |-> "idle"]
    /\ ret = << >>
    /\ files = {}
    /\ evidence = {}
    /\ uuids = 0
    /\ findings = {}
    /\ reports = {}
    /\ now = 0
    /\ requests = << >>
    /\ last_cleanup = 0
    /\ log = << >>
    /\ redis = << >>
    /\ creditBalance = FREE_CREDITS
    /\ aiusagelog = {}
    /\ ai = [r \in AiRequests |-> [pc |-> "idle"]]
    /\ hooks = [e \in Events |-> [pc |-> "idle"]]

DetectFileType ==
    /\ call.op = "idle"
    /\ \E c \in Contents :
        /\ call' = [op |-> "detect_file_type", content |-> c]
        /\ ret' = detect_file_type(c)
        /\ UNCHANGED <<uploads, records, limiter, credits>>

ValidateMagicBytes ==
    /\ call.op = "idle"
    /\ \E c \in Contents \cup LongContents, e \in ClaimedExtensions :
        /\ call' = [op |-> "validate_magic_bytes", content |-> c,
                    claimed_extension |-> e]
        /\ ret' = validate_magic_bytes(c, e)
        /\ UNCHANGED <<uploads, records, limiter, credits>>

IsSafeImage ==
    /\ call.op = "idle"
    /\ \E c \in Contents, e \in ClaimedExtensions :
        /\ call' = [op |-> "is_safe_image", content |-> c, claimed_extension |-> e]
        /\ ret' = is_safe_image(c, e)
        /\ UNCHANGED <<uploads, records, limiter, credits>>

ValidateUpload ==
    /\ call.op = "idle"
    /\ \E c \in Contents, fa \in UploadArguments :
        /\ call' = [op |-> "validate_upload", content |-> c, filename |-> fa[1],
                    allowed_extensions |-> fa[2]]
        /\ ret' = validate_upload(c, fa[1], fa[2])
        /\ UNCHANGED <<uploads, records, limiter, credits>>

NextVerifier == DetectFileType \/ ValidateMagicBytes \/ IsSafeImage \/ ValidateUpload

SpecVerifier == Init /\ [][NextVerifier]_vars

---------------------------------------------------------------------------
(* uploads.py: the upload routes.  A handler is one action: the request is *)
(* read, checked, and the file (and record) written, or an HTTP error is   *)
(* the response.  A uuid4 name and a database id are fresh numbers.        *)

MAX_UPLOAD_SIZE == 10485760

\* The uploads a behaviour makes at most.
MaxUploads == 2

get_file_extension(filename) ==
    IF DOT \in SeqToSet(filename) THEN lower(rsplit_last(filename, DOT)) ELSE << >>

\* validate_file: None when the file passes, else the HTTP error raised.
validate_file(filename, filesize) ==
    IF get_file_extension(filename) \notin ALLOWED_EXTENSIONS
    THEN Some([status |-> 400, detail |-> "File type not allowed"])
    ELSE IF filesize > MAX_UPLOAD_SIZE
         THEN Some([status |-> 400, detail |-> "File size exceeds maximum allowed size"])
         ELSE None

CT_IMAGE == S("image/")
CT_SVG == S("image/svg+xml")

\* The findings of the database with the organization of their project's
\* client, and the organization of the users that call.
FindingOrganization == [f1 |-> "orgA"]
FindingIds == {"f1", "f9"}
Users == {[organizationId |-> None], [organizationId |-> Some("orgB")]}

PNG_FILE == PNG_SIG \o S("A")
PHP_FILE == S("<?php system($_GET[0]);")
SVG_FILE == S("<svg onload=a()><script>b</script></svg>")

UploadedFile(f, t, c) == [filename |-> f, content_type |-> t, content |-> c]

\* The files the clients send: a genuine PNG, scripts named as images, an SVG
\* sent under a png name, and files the extension check refuses.
UploadedFiles ==
    { UploadedFile(S("shot.png"), Some(S("image/png")), PNG_FILE),
      UploadedFile(S("shot.PNG"), Some(S("image/png")), PHP_FILE),
      UploadedFile(S("shot.png"), Some(CT_SVG), SVG_FILE),
      UploadedFile(S("pic.svg"), Some(CT_SVG), SVG_FILE),
      UploadedFile(S("noext"), None, PNG_FILE),
      UploadedFile(S("shot.png"), None, PNG_FILE),
      UploadedFile(S("notes.txt"), Some(S("text/html")), PHP_FILE) }

Captions == {Some(S("proof"))}

UploadScreenshot ==
    /\ uuids < MaxUploads
    /\ \E file \in UploadedFiles :
         LET content == file.content
             refused == validate_file(file.filename, Len(content))
             ext == get_file_extension(file.filename)
             unique_filename == <<uuids + 1, ext>>
             written == IF file.content_type = Some(CT_SVG) \/ ext = EXT_SVG
                        THEN sanitize_svg(content)
                        ELSE content
         IN  /\ call' = [op |-> "upload_screenshot", file |-> file]
             /\ IF refused # None
                THEN /\ ret' = refused[1]
                     /\ UNCHANGED <<files, uuids>>
                ELSE IF file.content_type = None
                        \/ ~startswith(file.content_type[1], CT_IMAGE)
                     THEN /\ ret' = [status |-> 400, detail |-> "File must be an image"]
                          /\ UNCHANGED <<files, uuids>>
                     ELSE /\ files' = files \cup {[name |-> unique_filename,
                                                  content |-> written]}
                          /\ uuids' = uuids + 1
                          /\ ret' = [status |-> 200, filename |-> unique_filename]
             /\ UNCHANGED <<evidence, records, limiter, credits>>

UploadEvidence ==
    /\ uuids < MaxUploads
    /\ UNCHANGED <<records, limiter, credits>>
    /\ \E finding_id \in FindingIds, file \in UploadedFiles,
          caption \in Captions, current_user \in Users :
         LET content == file.content
             refused == validate_file(file.filename, Len(content))
             ext == get_file_extension(file.filename)
             filepath == <<uuids + 1, ext>>
         IN  /\ call' = [op |-> "upload_evidence", finding_id |-> finding_id,
                         file |-> file, caption |-> caption,
                         current_user |-> current_user]
             /\ IF finding_id \notin DOMAIN FindingOrganization
                THEN /\ ret' = [status |-> 404, detail |-> "Finding not found"]
                     /\ UNCHANGED <<files, evidence, uuids>>
                ELSE IF /\ current_user.organizationId # None
                        /\ FindingOrganization[finding_id]
                             # current_user.organizationId[1]
                     THEN /\ ret' = [status |-> 403, detail |-> "Access denied"]
                          /\ UNCHANGED <<files, evidence, uuids>>
                     ELSE IF refused # None
                          THEN /\ ret' = refused[1]
                               /\ UNCHANGED <<files, evidence, uuids>>
                          ELSE LET record ==
                                     [id |-> uuids + 1,
                                      filename |-> file.filename,
                                      filepath |-> filepath,
                                      filesize |-> Len(content),
                                      mimetype |->
                                        IF file.content_type = None
                                             \/ file.content_type[1] = << >>
                                        THEN S("application/octet-stream")
                                        ELSE file.content_type[1],
                                      caption |-> caption,
                                      findingId |-> finding_id]
                               IN  /\ files' = files \cup {[name |-> filepath,
                                                           content |-> content]}
                                   /\ evidence' = evidence \cup {record}
                                   /\ uuids' = uuids + 1
                                   /\ ret' = [status |-> 200, evidence |-> record]

DeleteEvidence ==
    \E evidence_id \in 1..MaxUploads, current_user \in Users :
        LET found == {e \in evidence : e.id = evidence_id}
            record == CHOOSE e \in found : TRUE
        IN  /\ call' = [op |-> "delete_evidence", evidence_id |-> evidence_id,
                        current_user |-> current_user]
            /\ IF found = {}
               THEN /\ ret' = [status |-> 404, detail |-> "Evidence not found"]
                    /\ UNCHANGED <<files, evidence>>
               ELSE IF /\ current_user.organizationId # None
                       /\ FindingOrganization[record.findingId]
                            # current_user.organizationId[1]
                    THEN /\ ret' = [status |-> 403, detail |-> "Access denied"]
                         /\ UNCHANGED <<files, evidence>>
                    ELSE /\ files' = {f \in files : f.name # record.filepath}
                         /\ evidence' = evidence \ {record}
                         /\ ret' = [status |-> 204]
            /\ UNCHANGED <<uuids, records, limiter, credits>>

NextUpload == UploadScreenshot \/ UploadEvidence \/ DeleteEvidence

SpecUpload == Init /\ [][NextUpload]_vars

---------------------------------------------------------------------------
(* sanitize_svg on its own: one call on an SVG text put together from at   *)
(* most MaxSvgParts fragments.                                             *)

MaxSvgParts == 3

SvgFragments ==
    { S("<svg"), S(">"), S(" "), <<34>>, <<255>>,
      S("<SCRIPT src=a"), S("</script>"),
      S("onload="), S("href="), S("xlink:href="), S("JavaScript:"), S("data:"),
      S("image/png"), S("<foreignObject>"), S("</foreignobject>"),
      S("<use "), S("//e") }

RECURSIVE SvgTexts(_)
SvgTexts(n) ==
    IF n = 0 THEN {<< >>}
    ELSE LET shorter == SvgTexts(n - 1)
         IN  shorter \cup {t \o f : t \in shorter, f \in SvgFragments}

\* Texts in which a pattern is put together by the removal of another.
SvgNested ==
    { S("<scr<script></script>ipt>alert(1)</script>"),
      S("<svg on<foreignObject></foreignObject>load=alert(1)>"),
      S("<a href=\"java<foreignObject></foreignObject>script:alert(1)\">"),
      S("<svg><script>alert(1)</script><a href=' JavaScript:x' onclick='y'/></svg>") }

SvgInputs == SvgTexts(MaxSvgParts) \cup SvgNested

SanitizeSvg ==
    /\ call.op = "idle"
    /\ \E c \in SvgInputs :
         /\ call' = [op |-> "sanitize_svg", content |-> c]
         /\ ret' = sanitize_svg(c)
         /\ UNCHANGED <<uploads, records, limiter, credits>>

SpecSvg == Init /\ [][SanitizeSvg]_vars

---------------------------------------------------------------------------
(* rich_text_service.py: the policy of the markup sanitizer and its        *)
(* attribute filter.                                                       *)

ALLOWED_TAGS ==
    << S("p"), S("b"), S("i"), S("strong"), S("em"),
       S("ul"), S("ol"), S("li"),
       S("h1"), S("h2"), S("h3"), S("h4"), S("h5"), S("h6"),
       S("code"), S("pre"), S("br"), S("hr"),
       S("blockquote"), S("a"), S("table"), S("thead"), S("tbody"), S("tr"),
       S("th"), S("td"),
       S("span"), S("div"),
       S("img") >>

STAR == S("*")
TAG_A == S("a")
TAG_IMG == S("img")
ATTR_SRC == S("src")
ATTR_HREF == S("href")

\* ALLOWED_ATTRIBUTES with onclick among the attributes of every tag.
ALLOWED_ATTRIBUTES_with_onclick ==
    << << STAR, << S("class"), S("id"), S("onclick") >> >>,
       << TAG_A, << ATTR_HREF, S("title"), S("target"), S("rel") >> >>,
       << TAG_IMG, << ATTR_SRC, S("alt"), S("title"), S("width"), S("height"),
                      S("data-align"), S("data-caption") >> >>,
       << S("td"), << S("colspan"), S("rowspan") >> >>,
       << S("th"), << S("colspan"), S("rowspan") >> >> >>

\* The dict, as its items in insertion order.
ALLOWED_ATTRIBUTES ==
    << << STAR, << S("class"), S("id") >> >>,
       << TAG_A, << ATTR_HREF, S("title"), S("target"), S("rel") >> >>,
       << TAG_IMG, << ATTR_SRC, S("alt"), S("title"), S("width"), S("height"),
                      S("data-align"), S("data-caption") >> >>,
       << S("td"), << S("colspan"), S("rowspan") >> >>,
       << S("th"), << S("colspan"), S("rowspan") >> >> >>

ALLOWED_PROTOCOLS == << S("http"), S("https"), S("mailto"), S("data") >>

\* cls.ALLOWED_ATTRIBUTES.get(tag, [])
attributes_get(tag) ==
    LET hits == {i \in 1..Len(ALLOWED_ATTRIBUTES) : ALLOWED_ATTRIBUTES[i][1] = tag}
    IN  IF hits = {} THEN << >> ELSE ALLOWED_ATTRIBUTES[CHOOSE i \in hits : TRUE][2]

UPLOADS_PATH == S("/uploads/")
DATA_IMAGE == S("data:image/")
LIT_VBSCRIPT == S("vbscript:")

valid_types ==
    << S("data:image/png"), S("data:image/jpeg"), S("data:image/jpg"),
       S("data:image/gif"), S("data:image/webp"), S("data:image/svg+xml") >>

\* _filter_img_src(tag, name, value)
filter_img_src(tag, name, value) ==
    IF tag # TAG_IMG \/ name # ATTR_SRC THEN TRUE
    ELSE IF value = << >> THEN FALSE
    ELSE LET v == lower(strip(value))
         IN  IF startswith(v, UPLOADS_PATH) THEN TRUE
             ELSE IF startswith(v, LIT_HTTP) \/ startswith(v, LIT_HTTPS) THEN TRUE
             ELSE IF startswith(v, DATA_IMAGE)
                       /\ \E k \in 1..Len(valid_types) : startswith(v, valid_types[k])
                  THEN TRUE
                  ELSE FALSE

\* filter_attributes whose href check lets data: through.
filter_attributes_href_data(tag, name, value) ==
    LET allowed_for_tag == SeqToSet(attributes_get(tag))
        allowed_for_all == SeqToSet(attributes_get(STAR))
        value_lower == lower(strip(value))
    IN  IF name \notin allowed_for_tag /\ name \notin allowed_for_all THEN FALSE
        ELSE IF tag = TAG_IMG /\ name = ATTR_SRC
             THEN filter_img_src(tag, name, value)
             ELSE IF /\ name = ATTR_HREF
                     /\ \/ startswith(value_lower, LIT_JAVASCRIPT)
                        \/ startswith(value_lower, LIT_VBSCRIPT)
                  THEN FALSE
                  ELSE TRUE

\* The filter that _get_attribute_filter returns.
filter_attributes(tag, name, value) ==
    LET allowed_for_tag == SeqToSet(attributes_get(tag))
        allowed_for_all == SeqToSet(attributes_get(STAR))
        value_lower == lower(strip(value))
    IN  IF name \notin allowed_for_tag /\ name \notin allowed_for_all THEN FALSE
        ELSE IF tag = TAG_IMG /\ name = ATTR_SRC
             THEN filter_img_src(tag, name, value)
             ELSE IF /\ name = ATTR_HREF
                     /\ \/ startswith(value_lower, LIT_JAVASCRIPT)
                        \/ startswith(value_lower, LIT_VBSCRIPT)
                        \/ startswith(value_lower, LIT_DATA)
                  THEN FALSE
                  ELSE TRUE

---------------------------------------------------------------------------
(* sanitize_html: bleach.clean(html, tags, attributes, protocols,          *)
(* strip=True).  The markup is the sequence of tokens its text holds, as   *)
(* written: start tags with their attributes in source order, end tags,    *)
(* comments and text.  The cleaner is modelled by what its documentation   *)
(* promises: a tag that is not allowed is stripped and what stands inside  *)
(* it is kept, an attribute is kept when the filter accepts it and, if it  *)
(* holds a URI, when its scheme is an allowed protocol; an element left    *)
(* open is closed and an end tag that closes nothing is dropped.  The      *)
(* parser drops a line feed that stands directly after the start tag of a  *)
(* pre element (HTML parsing: "newlines at the start of pre blocks are     *)
(* ignored").  The re-nesting that the HTML5 tree builder does beyond      *)
(* that, and the text (nothing or a line break) that takes the place of a  *)
(* stripped tag, are not modelled.                                         *)

StartTag(name, data) == [type |-> "StartTag", name |-> name, data |-> data]
EndTag(name) == [type |-> "EndTag", name |-> name, data |-> << >>]
Characters(data) == [type |-> "Characters", name |-> << >>, data |-> data]
Comment(data) == [type |-> "Comment", name |-> << >>, data |-> data]

\* The elements that have no end tag, among the allowed ones.
VOID_TAGS == {S("br"), S("hr"), TAG_IMG}

\* The attributes whose value the cleaner reads as a URI.
attr_val_is_uri ==
    { ATTR_HREF, ATTR_SRC, S("cite"), S("action"), S("longdesc"), S("poster"),
      S("background"), S("datasrc"), S("dynsrc"), S("lowsrc"), S("ping"),
      S("xlink:href"), S("xml:base") }

COLON == Ord(":")
HASH == Ord("#")

IsSchemeChar(c) ==
    \/ c >= 97 /\ c <= 122
    \/ c >= 65 /\ c <= 90
    \/ c >= 48 /\ c <= 57
    \/ c \in {Ord("+"), Ord("-"), Ord(".")}

IsAsciiAlpha(c) == (c >= 97 /\ c <= 122) \/ (c >= 65 /\ c <= 90)

\* The 1-based position of the first ch in s, or 0.
find(s, ch) ==
    IF \E i \in 1..Len(s) : s[i] = ch
    THEN CHOOSE i \in 1..Len(s) : s[i] = ch /\ \A j \in 1..(i - 1) : s[j] # ch
    ELSE 0

\* urlparse(url).scheme: the text before the first ':' when it is a letter
\* followed by letters, digits, '+', '-' and '.'; None for no scheme.
urlparse_scheme(url) ==
    LET i == find(url, COLON)
    IN  IF /\ i > 1
           /\ IsAsciiAlpha(url[1])
           /\ \A k \in 1..(i - 1) : IsSchemeChar(url[k])
        THEN Some(lower(SubSeq(url, 1, i - 1)))
        ELSE None

\* The characters the cleaner takes out of a URI before it reads the scheme:
\* the grave accent, the controls and the space, 127..160 and whitespace.
IsUriNoise(c) == c = 96 \/ c <= 32 \/ (c >= 127 /\ c <= 160) \/ IsSpace(c)

RECURSIVE without_noise(_)
without_noise(s) ==
    IF s = << >> THEN << >>
    ELSE IF IsUriNoise(Head(s)) THEN without_noise(Tail(s))
    ELSE <<Head(s)>> \o without_noise(Tail(s))

\* sanitize_uri_value that lets every value through.
sanitize_uri_value_any(value, allowed_protocols) == Some(value)

\* The protocol check of the cleaner: the value when its URI may stay, else
\* None.
sanitize_uri_value(value, allowed_protocols) ==
    LET normalized_uri == lower(without_noise(value))
        scheme == urlparse_scheme(normalized_uri)
        protocols == SeqToSet(allowed_protocols)
        colon == find(normalized_uri, COLON)
    IN  IF scheme # None
        THEN IF scheme[1] \in protocols THEN Some(value) ELSE None
        ELSE IF startswith(normalized_uri, <<HASH>>) THEN Some(value)
        ELSE IF colon > 0 /\ SubSeq(normalized_uri, 1, colon - 1) \in protocols
             THEN Some(value)
        ELSE IF S("http") \in protocols \/ S("https") \in protocols
             THEN Some(value)
             ELSE None

\* The attributes of a start tag as the tokenizer hands them on: names in
\* lower case, and of attributes with the same name the first one.
RECURSIVE tag_attributes_from(_, _)
tag_attributes_from(data, k) ==
    IF k > Len(data) THEN << >>
    ELSE IF \E j \in 1..(k - 1) : lower(data[j][1]) = lower(data[k][1])
         THEN tag_attributes_from(data, k + 1)
         ELSE << <<lower(data[k][1]), data[k][2]>> >>
                  \o tag_attributes_from(data, k + 1)

tag_attributes(data) == tag_attributes_from(data, 1)

\* a is an attribute of tag name that stays.
attribute_stays(name, a, protocols) ==
    /\ filter_attributes(name, a[1], a[2])
    /\ a[1] \in attr_val_is_uri => sanitize_uri_value(a[2], protocols) # None

\* The attributes of an allowed tag that stay, in the order of the tag.
RECURSIVE allow_attributes_from(_, _, _, _)
allow_attributes_from(name, attrs, k, protocols) ==
    IF k > Len(attrs) THEN << >>
    ELSE IF attribute_stays(name, attrs[k], protocols)
         THEN <<attrs[k]>> \o allow_attributes_from(name, attrs, k + 1, protocols)
         ELSE allow_attributes_from(name, attrs, k + 1, protocols)

allow_attributes(name, data, protocols) ==
    allow_attributes_from(name, tag_attributes(data), 1, protocols)

\* The end tags of the elements of open (innermost last) from the top down
\* to position k.
RECURSIVE close_down_to(_, _)
close_down_to(open, k) ==
    IF Len(open) < k THEN << >>
    ELSE <<EndTag(open[Len(open)])>> \o close_down_to(SubSeq(open, 1, Len(open) - 1), k)

\* The elements at whose start the parser drops a line feed that follows
\* the start tag directly.
LINE_FEED == <<10>>
LF_DROPPED_AFTER == {S("pre"), S("listing")}

\* The cleaned tokens of text[i ..], inside the elements of open.
RECURSIVE clean_from(_, _, _, _, _)
clean_from(text, i, open, tags, protocols) ==
    IF i > Len(text) THEN close_down_to(open, 1)
    ELSE LET token == text[i]
             name == lower(token.name)
             rest(stack) == clean_from(text, i + 1, stack, tags, protocols)
             opened == {k \in 1..Len(open) : open[k] = name}
             top == CHOOSE k \in opened : \A m \in opened : m <= k
             after_pre == /\ i > 1
                          /\ text[i - 1].type = "StartTag"
                          /\ lower(text[i - 1].name) \in LF_DROPPED_AFTER
             data == IF after_pre /\ startswith(token.data, LINE_FEED)
                     THEN Tail(token.data)
                     ELSE token.data
         IN  IF token.type = "Characters"
             THEN IF data = << >> THEN rest(open)
                  ELSE <<Characters(data)>> \o rest(open)
             ELSE IF token.type = "Comment" THEN rest(open)
             ELSE IF name \notin SeqToSet(tags) THEN rest(open)
             ELSE IF token.type = "StartTag"
                  THEN LET kept == allow_attributes(name, token.data, protocols)
                       IN  IF name \in VOID_TAGS
                           THEN <<[type |-> "EmptyTag", name |-> name, data |-> kept]>>
                                    \o rest(open)
                           ELSE <<StartTag(name, kept)>> \o rest(Append(open, name))
                  ELSE IF opened = {} THEN rest(open)
                       ELSE close_down_to(open, top) \o rest(SubSeq(open, 1, top - 1))

\* bleach.clean(text, tags=, attributes=filter_attributes, protocols=,
\* strip=True)
clean(text, tags, protocols) ==
    clean_from(text, 1, << >>, tags, protocols)

\* The text of cleaned tokens, as the serializer writes it: '&', '<' and '>'
\* of a text and '&' and '"' of an attribute value are written as entities.
ENT_AMP == S("&amp;")
ENT_LT == S("&lt;")
ENT_GT == S("&gt;")
ENT_QUOT == S("&quot;")
AMPERSAND == Ord("&")
LESS_THAN == Ord("<")
QUOTE == Ord("\"")
LIT_END_OPEN == S("</")
LIT_ATTR_OPEN == S("=\"")

RECURSIVE escape(_, _)
escape(data, in_attribute) ==
    IF data = << >> THEN << >>
    ELSE LET c == Head(data)
             written == IF c = AMPERSAND THEN ENT_AMP
                        ELSE IF in_attribute
                             THEN IF c = QUOTE THEN ENT_QUOT ELSE <<c>>
                             ELSE IF c = LESS_THAN THEN ENT_LT
                                  ELSE IF c = GT THEN ENT_GT ELSE <<c>>
         IN  written \o escape(Tail(data), in_attribute)

RECURSIVE serialize_attributes(_)
serialize_attributes(attrs) ==
    IF attrs = << >> THEN << >>
    ELSE S(" ") \o Head(attrs)[1] \o LIT_ATTR_OPEN \o escape(Head(attrs)[2], TRUE)
             \o <<QUOTE>> \o serialize_attributes(Tail(attrs))

RECURSIVE serialize(_)
serialize(tokens) ==
    IF tokens = << >> THEN << >>
    ELSE LET token == Head(tokens)
             written ==
                 IF token.type = "Characters" THEN escape(token.data, FALSE)
                 ELSE IF token.type = "EndTag"
                      THEN LIT_END_OPEN \o token.name \o <<GT>>
                      ELSE <<LESS_THAN>> \o token.name
                               \o serialize_attributes(token.data) \o <<GT>>
         IN  written \o serialize(Tail(tokens))

\* The tokens that the text of cleaned tokens holds when it is read again:
\* a tag without end tag is a start tag, and texts that stand side by side
\* are one text.
RECURSIVE tokenized(_)
tokenized(tokens) ==
    IF tokens = << >> THEN << >>
    ELSE LET token == Head(tokens)
             rest == tokenized(Tail(tokens))
         IN  IF token.type = "EmptyTag"
             THEN <<StartTag(token.name, token.data)>> \o rest
             ELSE IF /\ token.type = "Characters"
                     /\ rest # << >>
                     /\ Head(rest).type = "Characters"
                  THEN <<Characters(token.data \o Head(rest).data)>> \o Tail(rest)
                  ELSE <<token>> \o rest

\* sanitize_html(html), html a string (Some) or None; the result is a string
\* in both cases.
sanitize_html(html) ==
    IF html = None \/ html[1] = << >> THEN << >>
    ELSE clean(html[1], ALLOWED_TAGS, ALLOWED_PROTOCOLS)

\* The protocols of the cleaner when none are given.
DEFAULT_PROTOCOLS == << S("http"), S("https"), S("mailto") >>

\* to_html that does not hand ALLOWED_PROTOCOLS to the cleaner.
to_html_default_protocols(text, strip_unsafe, rendered) ==
    IF text = << >> THEN << >>
    ELSE IF strip_unsafe THEN clean(rendered, ALLOWED_TAGS, DEFAULT_PROTOCOLS)
    ELSE rendered

\* to_html(text, strip_unsafe); rendered is what markdown.markdown returns
\* for text.
to_html(text, strip_unsafe, rendered) ==
    IF text = << >> THEN << >>
    ELSE IF strip_unsafe THEN clean(rendered, ALLOWED_TAGS, ALLOWED_PROTOCOLS)
    ELSE rendered

---------------------------------------------------------------------------
(* The inputs of the attribute filter and of sanitize_html.                *)

\* The tokens of a markup text, and the attributes of a start tag, at most.
MaxTokens == 3
MaxAttrs == 2

TAB == <<9>>

FilterTags == {TAG_A, TAG_IMG, S("td"), S("div"), S("script"), S("IMG")}

FilterNames ==
    { ATTR_HREF, ATTR_SRC, S("class"), S("id"), S("title"), S("alt"), S("target"),
      S("colspan"), S("data-align"), S("style"), S("xlink:href"), S("Href"),
      S("onclick"), S("onerror"), S("onload"), S("on"), S("ONCLICK"), S("once") }

UrlBodies ==
    { << >>, S("javascript:alert(1)"), S("JavaScript:alert(1)"),
      S("vbscript:msgbox(1)"), S("VBScript:x"),
      S("java") \o TAB \o S("script:alert(1)"),
      S("data:text/html,<script>alert(1)</script>"),
      S("data:image/png;base64,AA"), S("DATA:IMAGE/PNG;base64,AA"),
      S("data:image/jpeg;base64,AA"), S("data:image/jpg,AA"),
      S("data:image/gif;base64,AA"), S("data:image/webp;base64,AA"),
      S("data:image/svg+xml,<svg/>"),
      S("data:image/pngx;base64,AA"), S("data:image/jpeg2000;base64,AA"),
      S("data:image/bmp;base64,AA"), S("data:image/"), S("data:,x"),
      S("/uploads/a.png"), S("/Uploads/A.PNG"), S("uploads/a.png"),
      S("../uploads/a.png"), S("/other/a.png"), S("a.png"),
      S("http://e/a.png"), S("HTTPS://e/a.png"), S("http:/e"), S("//e/a.png"),
      S("ftp://e/a.png"), S("mailto:a@b.c"), S("#top") }

FilterValues ==
    {pre \o body \o post : pre \in {<< >>, S(" "), TAB \o <<10>>},
                           body \in UrlBodies,
                           post \in {<< >>, S(" ")}}

\* The tokens of the markup texts: tags of the policy and tags outside it, in
\* both letter cases, with text and a comment.
MarkupTokens ==
    { StartTag(S("SCRIPT"), << <<ATTR_SRC, S("https://e/x.js")>> >>),
      EndTag(S("script")), Characters(S("alert(1)")),
      StartTag(S("div"), << <<S("class"), S("c")>>, <<S("onclick"), S("x()")>> >>),
      EndTag(S("DIV")),
      StartTag(S("b"), << >>),
      StartTag(S("iframe"), << <<ATTR_SRC, S("https://e/")>> >>),
      StartTag(S("form"), << <<S("action"), S("https://e/")>> >>),
      StartTag(S("img"), << <<ATTR_SRC, S("x")>>, <<S("onerror"), S("alert(1)")>> >>),
      Comment(S("c")) }

\* The texts of one tag that is outside the policy.
UnsafeTexts ==
    {<<StartTag(t, << >>)>> : t \in {S("script"), S("style"), S("object"),
                                     S("embed"), S("Form")}}

RECURSIVE MarkupTexts(_)
MarkupTexts(n) ==
    IF n = 0 THEN {<< >>}
    ELSE LET shorter == MarkupTexts(n - 1)
         IN  shorter \cup {Append(t, k) : t \in shorter, k \in MarkupTokens}

\* The attributes written on the one tag of a text.
TagAttributes ==
    {<<n, v>> : n \in {ATTR_HREF, ATTR_SRC, S("ONCLICK"), S("id")},
                v \in { S("https://e/"), S("java") \o TAB \o S("script:alert(1)"),
                        S("data:image/png;base64,AA"), S("ftp://e/") }}
        \cup {<<S("HREF"), S(" JavaScript:alert(1)")>>}

RECURSIVE AttributeLists(_)
AttributeLists(n) ==
    IF n = 0 THEN {<< >>}
    ELSE LET shorter == AttributeLists(n - 1)
         IN  shorter \cup {Append(l, a) : l \in shorter, a \in TagAttributes}

TaggedTexts ==
    {<<StartTag(t, l)>> : t \in {TAG_A, TAG_IMG, S("Div")},
                          l \in AttributeLists(MaxAttrs)}

\* A text with the four formatting elements:
\* <b>bold</b> <i>italic</i> <u>underline</u> <s>strike</s>
FormattingText ==
    << StartTag(S("b"), << >>), Characters(S("bold")), EndTag(S("b")),
       Characters(S(" ")),
       StartTag(S("i"), << >>), Characters(S("italic")), EndTag(S("i")),
       Characters(S(" ")),
       StartTag(S("u"), << >>), Characters(S("underline")), EndTag(S("u")),
       Characters(S(" ")),
       StartTag(S("s"), << >>), Characters(S("strike")), EndTag(S("s")) >>

\* Preformatted texts that begin with no, one and two line feeds, and one
\* whose line feed follows a stripped tag.
PreformattedTexts ==
    { << StartTag(S("pre"), << >>), Characters(lead \o S("x = 1")),
         EndTag(S("pre")) >> : lead \in {<< >>, <<10>>, <<10, 10>>} }
        \cup { << StartTag(S("pre"), << >>), StartTag(S("font"), << >>),
                 Characters(<<10>> \o S("x")) >> }

\* The arguments of sanitize_html: None, the empty text, and texts.
HtmlInputs ==
    {None} \cup {Some(t) : t \in MarkupTexts(MaxTokens) \cup UnsafeTexts \cup TaggedTexts
                                  \cup {FormattingText} \cup PreformattedTexts}

FilterImgSrc ==
    /\ call.op = "idle"
    /\ \E tag \in FilterTags, name \in FilterNames, value \in FilterValues :
         /\ call' = [op |-> "filter_img_src", tag |-> tag, name |-> name,
                     value |-> value]
         /\ ret' = filter_img_src(tag, name, value)
         /\ UNCHANGED <<uploads, records, limiter, credits>>

FilterAttributes ==
    /\ call.op = "idle"
    /\ \E tag \in FilterTags, name \in FilterNames, value \in FilterValues :
         /\ call' = [op |-> "filter_attributes", tag |-> tag, name |-> name,
                     value |-> value]
         /\ ret' = filter_attributes(tag, name, value)
         /\ UNCHANGED <<uploads, records, limiter, credits>>

SanitizeHtml ==
    /\ call.op = "idle"
    /\ \E html \in HtmlInputs :
         /\ call' = [op |-> "sanitize_html", html |-> html]
         /\ ret' = Some(sanitize_html(html))
         /\ UNCHANGED <<uploads, records, limiter, credits>>

\* The Markdown texts given to to_html.
MarkdownTexts == {<< >>, S("# Title"), S("<script>alert(1)</script>")}

\* What the Markdown renderer returns: markup with the raw HTML of the text
\* in it.
RenderedTexts ==
    MarkupTexts(MaxTokens - 1) \cup UnsafeTexts
        \cup {<<StartTag(t, <<a>>)>> : t \in {TAG_A, TAG_IMG}, a \in TagAttributes}

ToHtml ==
    /\ call.op = "idle"
    /\ \E text \in MarkdownTexts, strip_unsafe \in BOOLEAN, rendered \in RenderedTexts :
         /\ call' = [op |-> "to_html", text |-> text, strip_unsafe |-> strip_unsafe,
                     rendered |-> rendered]
         /\ ret' = Some(to_html(text, strip_unsafe, rendered))
         /\ UNCHANGED <<uploads, records, limiter, credits>>

NextMarkup == FilterImgSrc \/ FilterAttributes \/ SanitizeHtml \/ ToHtml

SpecMarkup == Init /\ [][NextMarkup]_vars

---------------------------------------------------------------------------
(* Properties of the file-type verifier (checked under SpecVerifier).      *)

\* The bytes of sig stand in content at 0-based position offset.
MatchesAt(content, sig, offset) ==
    /\ Len(content) >= offset + Len(sig)
    /\ \A k \in 1..Len(sig) : content[offset + k] = sig[k]

\* The table entry of a key.
EntryOf(ext) == CHOOSE e \in SeqToSet(MAGIC_SIGNATURES) : e.ext = ext

\* The failure classes a message of validate_upload can be read as, from its
\* text alone.
MessageClasses(msg) ==
    {cls \in {"missing_extension", "extension_not_allowed", "content_mismatch"} :
        \/ cls = "missing_extension" /\ msg = MSG_NO_EXTENSION
        \/ cls = "extension_not_allowed" /\ startswith(msg, MSG_NOT_ALLOWED_1)
        \/ cls = "content_mismatch"
              /\ (msg = MSG_UNVERIFIED \/ startswith(msg, MSG_APPEARS_1))}

FILE_DOT == S("file.")

\* The call is validate_upload(content, "file." + e, {e}).
IsFileDotExtCall(e) ==
    /\ call.op = "validate_upload"
    /\ call.filename = FILE_DOT \o e
    /\ call.allowed_extensions = {e}

\* The text after "file." in the filename of the call.
AfterFileDot == SubSeq(call.filename, Len(FILE_DOT) + 1, Len(call.filename))

\* C2, as claimed: an extension that does not normalise to a key of the table
\* makes validate_magic_bytes return (False, None), and makes
\* validate_upload(content, "file." + ext, {ext}) fail with a content-mismatch
\* message, for every content.
C2_DefaultDenyAsContentMismatch ==
    /\ (call.op = "validate_magic_bytes"
            /\ normalise_ext(call.claimed_extension) \notin SignatureKeys)
         => ret = <<FALSE, None>>
    /\ (/\ call.op = "validate_upload"
        /\ IsFileDotExtCall(AfterFileDot)
        /\ normalise_ext(AfterFileDot) \notin SignatureKeys)
         => ~ret[1] /\ MessageClasses(ret[2]) = {"content_mismatch"}

\* C2, amended: validate_magic_bytes returns (False, None) for such an
\* extension, and validate_upload(content, "file." + ext, {ext}) is never
\* accepted: it fails with a content-mismatch message when ext is lower-case
\* and holds no '.', and with an extension-not-allowed message otherwise.
C2_DefaultDeny ==
    /\ (call.op = "validate_magic_bytes"
            /\ normalise_ext(call.claimed_extension) \notin SignatureKeys)
         => ret = <<FALSE, None>>
    /\ (/\ call.op = "validate_upload"
        /\ IsFileDotExtCall(AfterFileDot)
        /\ normalise_ext(AfterFileDot) \notin SignatureKeys)
         => /\ ~ret[1]
            /\ MessageClasses(ret[2]) =
                 IF lower(AfterFileDot) = AfterFileDot
                      /\ DOT \notin SeqToSet(AfterFileDot)
                 THEN {"content_mismatch"}
                 ELSE {"extension_not_allowed"}

\* Genuine PNG bytes uploaded as file.exe with {exe} allowed are refused.
C2_Witness ==
    /\ IsFileDotExtCall(S("exe"))
    /\ startswith(call.content, PNG_SIG)
    /\ ret = <<FALSE, MSG_UNVERIFIED>>

\* C3: for an extension with byte signatures other than webp,
\* validate_magic_bytes accepts exactly the contents in which one of the
\* extension's signatures stands at its offset; a content shorter than every
\* signature is rejected with a result, not an error; an accepted content is
\* reported with the MIME type of the claimed extension's entry.
C3_SignatureMatch ==
    call.op = "validate_magic_bytes"
      => LET ext == normalise_ext(call.claimed_extension)
             sigs == EntryOf(ext).signatures
         IN  (ext \in SignatureKeys /\ ext # EXT_WEBP /\ sigs # << >>)
               => /\ ret[1] \in BOOLEAN
                  /\ ret[1] <=> \E j \in 1..Len(sigs) :
                                    MatchesAt(call.content, sigs[j][1], sigs[j][2])
                  /\ (\A j \in 1..Len(sigs) :
                         Len(call.content) < sigs[j][2] + Len(sigs[j][1]))
                       => ~ret[1]
                  /\ ret[1] => ret[2] = Some(EntryOf(ext).mime)

\* JPEG EXIF bytes, the second signature of jpg, are accepted as ".JPG".
C3_Witness ==
    /\ call.op = "validate_magic_bytes"
    /\ call.claimed_extension = S(".JPG")
    /\ startswith(call.content, <<255, 216, 255, 225>>)
    /\ ret = <<TRUE, Some(S("image/jpeg"))>>

\* C4: validate_magic_bytes accepts a content as webp exactly when it starts
\* with RIFF, is at least 12 bytes long and holds WEBP at bytes 8..11.
C4_WebpSecondaryCheck ==
    (call.op = "validate_magic_bytes"
        /\ normalise_ext(call.claimed_extension) = EXT_WEBP)
      => (ret[1] <=> /\ MatchesAt(call.content, RIFF, 0)
                     /\ Len(call.content) >= 12
                     /\ MatchesAt(call.content, WEBP, 8))

\* RIFF + 4 bytes + WAVE is refused as webp.
C4_Witness ==
    /\ call.op = "validate_magic_bytes"
    /\ call.claimed_extension = S("webp")
    /\ call.content = RIFF \o Pad(4) \o S("WAVE")
    /\ ~ret[1]

\* Upper-casing, for the letter-case variants of a filename's extension.
UpperChar(c) == IF c >= 97 /\ c <= 122 THEN c - 32 ELSE c
UpperExtension(filename) ==
    LET cut == rfind(filename, DOT) + 1
    IN  [i \in 1..Len(filename) |->
            IF i > cut THEN UpperChar(filename[i]) ELSE filename[i]]
LowerExtension(filename) ==
    LET cut == rfind(filename, DOT) + 1
    IN  [i \in 1..Len(filename) |->
            IF i > cut THEN LowerChar(filename[i]) ELSE filename[i]]

\* C5: validate_upload checks, in this order, that the filename holds a '.',
\* that the lower-cased text after the last '.' is allowed, and that
\* validate_magic_bytes accepts the content for it; it returns the failure of
\* the first check that fails and (True, "OK") exactly when all pass; the
\* message of each failure class reads as that class and no other; the
\* verdict is the same for every letter case of the filename's extension.
C5_UploadChecksInOrder ==
    call.op = "validate_upload"
      => LET hasDot == \E i \in 1..Len(call.filename) : call.filename[i] = DOT
             ext == lower(rsplit_last(call.filename, DOT))
             allowed == ext \in call.allowed_extensions
             genuine == validate_magic_bytes(call.content, ext)[1]
             first == IF ~hasDot THEN "missing_extension"
                      ELSE IF ~allowed THEN "extension_not_allowed"
                      ELSE IF ~genuine THEN "content_mismatch"
                      ELSE "none"
         IN  /\ (first = "none") <=> ret = <<TRUE, MSG_OK>>
             /\ (first # "none") => ~ret[1] /\ MessageClasses(ret[2]) = {first}
             /\ ret[1] = validate_upload(call.content,
                             UpperExtension(call.filename),
                             call.allowed_extensions)[1]
             /\ ret[1] = validate_upload(call.content,
                             LowerExtension(call.filename),
                             call.allowed_extensions)[1]

\* Genuine PNG bytes named photo.PNG pass the three checks.
C5_Witness ==
    /\ call.op = "validate_upload"
    /\ call.filename = S("photo.PNG")
    /\ startswith(call.content, PNG_SIG)
    /\ ret = <<TRUE, S("OK")>>

\* The patterns of the SVG scan, in the order of the list, and the image
\* extensions.
ScanPatterns ==
    << S("<script"), S("javascript:"), S("onerror="),
       S("onload="), S("onclick="), S("<foreignobject") >>
ImageExtensions == {S("png"), S("jpg"), S("jpeg"), S("gif"), S("webp"), S("svg")}

\* C6: is_safe_image accepts exactly when the normalised extension is one of
\* png, jpg, jpeg, gif, webp, svg, validate_magic_bytes accepts the content
\* for it and, for svg, the lower-cased decoding of the content holds none of
\* the six dangerous patterns; an SVG refused for a pattern is refused with a
\* reason naming the first pattern of the list that occurs in it.
C6_SafeImage ==
    call.op = "is_safe_image"
      => LET ext == normalise_ext(call.claimed_extension)
             text == lower(decode_utf8_ignore(call.content))
             hits == {k \in 1..Len(ScanPatterns) : contains(text, ScanPatterns[k])}
             image == ext \in ImageExtensions
             genuine == validate_magic_bytes(call.content, ext)[1]
         IN  /\ ret[1] <=> (image /\ genuine /\ (ext = EXT_SVG => hits = {}))
             /\ (image /\ genuine /\ ext = EXT_SVG /\ hits # {})
                  => LET k == CHOOSE k \in hits : \A m \in hits : k <= m
                     IN  ret[2] = MSG_DANGEROUS \o ScanPatterns[k]

\* An SVG holding onload= before <script is refused for <script.
C6_Witness ==
    /\ call.op = "is_safe_image"
    /\ call.claimed_extension = S("svg")
    /\ call.content = S("<svg") \o S(" onload=x <script>")
    /\ ret = <<FALSE, S("SVG contains potentially dangerous content: <script")>>

---------------------------------------------------------------------------
(* Properties of the upload routes (checked under SpecUpload).             *)

\* C1: upload_screenshot and upload_evidence write the uploaded bytes only
\* after validate_upload has accepted that content for that filename: a
\* request that ends with its file written is one whose content
\* validate_upload accepts under the filename sent, whatever set of
\* extensions the route allows.
C1_WrittenOnlyIfValidated ==
    (call.op \in {"upload_screenshot", "upload_evidence"} /\ ret.status = 200)
      => validate_upload(call.file.content, call.file.filename,
                         ALLOWED_EXTENSIONS \cup SignatureKeys)[1]

---------------------------------------------------------------------------
(* Properties of the markup sanitizer (checked under SpecMarkup).          *)

\* The scheme a browser reads in a URL: tabs and line breaks are taken out,
\* leading controls and spaces are dropped, and the scheme is the run of a
\* letter followed by letters, digits, '+', '-' and '.' that ends at the
\* first ':'.  None when the URL carries no scheme.
SchemeOf(value) ==
    LET joined == SelectSeq(value, LAMBDA c : c \notin {9, 10, 13})
        lead == {k \in 1..Len(joined) : joined[k] > 32}
        first == IF lead = {} THEN Len(joined) + 1
                 ELSE CHOOSE k \in lead : \A m \in lead : k <= m
        url == SubSeq(joined, first, Len(joined))
        colons == {k \in 1..Len(url) : url[k] = 58}
        colon == IF colons = {} THEN 0 ELSE CHOOSE k \in colons : \A m \in colons : k <= m
    IN  IF /\ colon > 1
           /\ IsAsciiAlpha(url[1])
           /\ \A k \in 1..(colon - 1) : IsSchemeChar(url[k])
        THEN Some(lower(SubSeq(url, 1, colon - 1)))
        ELSE None

\* The tags of the elements of a sanitized text.
IsTag(token) == token.type \in {"StartTag", "EmptyTag", "EndTag"}

\* The attributes of a token of a sanitized text: those of its start tag.
AttributesOf(token) ==
    IF token.type \in {"StartTag", "EmptyTag"} THEN SeqToSet(token.data) ELSE {}

\* The attributes the policy lists for a tag, the global ones included.
PolicyGlobal == {S("class"), S("id")}
PolicyAnchor == {S("href"), S("title"), S("target"), S("rel")}
PolicyImage ==
    {S("src"), S("alt"), S("title"), S("width"), S("height"),
     S("data-align"), S("data-caption")}
PolicyCell == {S("colspan"), S("rowspan")}
CellTags == {S("td"), S("th")}
PolicyAttributes(tag) ==
    PolicyGlobal \cup
    (IF tag = TAG_A THEN PolicyAnchor
     ELSE IF tag = TAG_IMG THEN PolicyImage
     ELSE IF tag \in CellTags THEN PolicyCell
     ELSE {})

\* The elements that must be in no output, the attributes that hold a URL
\* and the schemes a URL may use.
UnsafeTags ==
    {S("script"), S("iframe"), S("object"), S("embed"), S("style"), S("form")}
UrlAttributes == {S("href"), S("src")}
SafeSchemes == {S("http"), S("https"), S("mailto"), S("data")}

\* C7: every element in the output of sanitize_html has a tag of the
\* allowed-tag policy, every attribute on it is one the attribute filter
\* accepts for that tag, and every URL-valued attribute that carries a scheme
\* uses http, https, mailto or data; no script, iframe, object, embed, style
\* or form element is in any output.
C7_OutputWithinPolicy ==
    call.op = "sanitize_html"
      => \A i \in 1..Len(ret[1]) :
           IsTag(ret[1][i])
             => /\ ret[1][i].name \in SeqToSet(ALLOWED_TAGS)
                /\ ret[1][i].name \notin UnsafeTags
                /\ \A a \in AttributesOf(ret[1][i]) :
                     /\ filter_attributes(ret[1][i].name, a[1], a[2])
                     /\ (a[1] \in UrlAttributes /\ SchemeOf(a[2]) # None)
                          => SchemeOf(a[2])[1] \in SafeSchemes

\* An anchor whose href hides javascript: behind a tab comes out without it,
\* with its id.
C7_Witness ==
    /\ call.op = "sanitize_html"
    /\ call.html = Some(<< StartTag(S("a"),
                             << <<S("href"), S("java") \o <<9>> \o S("script:alert(1)")>>,
                                <<S("id"), S("https://e/")>> >>) >>)
    /\ ret = Some(<< StartTag(S("a"), << <<S("id"), S("https://e/")>> >>),
                      EndTag(S("a")) >>)

\* C8: the attribute filter accepts (tag, name, value) only if name is in
\* the allowed set of that tag or in the global set {class, id}; it rejects
\* every attribute whose name starts with 'on', for every tag and value, and
\* no attribute whose name starts with 'on' is in an output of sanitize_html.
C8_OnlyListedAttributes ==
    /\ call.op = "filter_attributes"
         => /\ ret => call.name \in PolicyAttributes(call.tag)
            /\ startswith(lower(call.name), LIT_ON) => ~ret
    /\ call.op = "sanitize_html"
         => \A i \in 1..Len(ret[1]) :
              \A a \in AttributesOf(ret[1][i]) : ~startswith(a[1], LIT_ON)

\* onclick on a div is rejected whatever its value.
C8_Witness ==
    /\ call.op = "filter_attributes"
    /\ call.tag = S("div")
    /\ call.name = S("onclick")
    /\ call.value = S("#top")
    /\ ret = FALSE

RejectedHrefSchemes == {S("javascript:"), S("vbscript:"), S("data:")}
DATA_IMAGE_PNG == S("data:image/png;")

\* C9: the attribute filter rejects an href whose value, trimmed of
\* surrounding whitespace and lower-cased, begins with javascript:, vbscript:
\* or data:; a data:image/png value is rejected as an href although the same
\* filter accepts it as the src of an img.
C9_HrefSchemesRejected ==
    (call.op = "filter_attributes" /\ call.name = ATTR_HREF)
      => LET v == lower(strip(call.value))
         IN  /\ (\E scheme \in RejectedHrefSchemes : startswith(v, scheme)) => ~ret
             /\ startswith(v, DATA_IMAGE_PNG)
                  => ~ret /\ filter_attributes(TAG_IMG, ATTR_SRC, call.value)

\* An anchor's href of data:image/png is rejected.
C9_Witness ==
    /\ call.op = "filter_attributes"
    /\ call.tag = S("a")
    /\ call.name = S("href")
    /\ call.value = S(" ") \o S("DATA:IMAGE/PNG;base64,AA")
    /\ ret = FALSE

\* The MIME type of a data: URL: the text between "data:" and the first ';'
\* or ','.
MimeOf(v) ==
    LET stops == {k \in 6..Len(v) : v[k] \in {59, 44}}
        stop == IF stops = {} THEN Len(v) + 1
                ELSE CHOOSE k \in stops : \A m \in stops : k <= m
    IN  SubSeq(v, 6, stop - 1)

ImagePrefixes == {S("/uploads/"), S("http://"), S("https://")}
ImageMimeTypes ==
    {S("image/png"), S("image/jpeg"), S("image/jpg"), S("image/gif"),
     S("image/webp"), S("image/svg+xml")}

\* C10: the attribute filter accepts the src of an img only if the value,
\* trimmed and lower-cased, starts with /uploads/, http:// or https://, or is
\* a data: URL whose MIME type is exactly one of image/png, image/jpeg,
\* image/jpg, image/gif, image/webp, image/svg+xml.
C10_ImgSrcOnlyListedTypes ==
    (/\ call.op \in {"filter_attributes", "filter_img_src"}
     /\ call.tag = TAG_IMG /\ call.name = ATTR_SRC /\ ret)
      => LET v == lower(strip(call.value))
         IN  \/ \E prefix \in ImagePrefixes : startswith(v, prefix)
             \/ startswith(v, LIT_DATA) /\ MimeOf(v) \in ImageMimeTypes

---------------------------------------------------------------------------
(* Properties of sanitize_html and to_html (checked under SpecMarkup).      *)

\* The elements whose text is script, style sheet or embedded content.
RemovedWithText ==
    {S("script"), S("style"), S("iframe"), S("object"), S("embed"),
     S("foreignobject")}

\* The one of them that has no end tag.
EmbeddedVoid == {S("embed")}

\* The tokens of text[i ..] that are outside every element of
\* RemovedWithText; inside is the name of the element that is open, or << >>.
\* embed has no end tag and no content.
RECURSIVE OutsideRemoved(_, _, _)
OutsideRemoved(text, i, inside) ==
    IF i > Len(text) THEN << >>
    ELSE LET token == text[i]
             name == lower(token.name)
         IN  IF inside # << >>
             THEN IF token.type = "EndTag" /\ name = inside
                  THEN OutsideRemoved(text, i + 1, << >>)
                  ELSE OutsideRemoved(text, i + 1, inside)
             ELSE IF token.type = "StartTag" /\ name \in RemovedWithText
                  THEN OutsideRemoved(text, i + 1,
                                      IF name \in EmbeddedVoid THEN << >> ELSE name)
                  ELSE <<token>> \o OutsideRemoved(text, i + 1, << >>)

\* C11: sanitize_html removes script, style, iframe, object, embed and
\* foreignObject elements together with the text between their opening and
\* closing tags, and unwraps every other disallowed tag, keeping its inner
\* text: the output is what cleaning gives for the input without these
\* elements.
C11_RemovedWithTheirText ==
    (call.op = "sanitize_html" /\ call.html # None)
      => ret = Some(clean(OutsideRemoved(call.html[1], 1, << >>),
                          ALLOWED_TAGS, ALLOWED_PROTOCOLS))

\* C12: sanitize_html is idempotent: for every HTML string h,
\* sanitize_html(sanitize_html(h)) equals sanitize_html(h).
C12_Idempotent ==
    call.op = "sanitize_html"
      => serialize(sanitize_html(Some(tokenized(ret[1])))) = serialize(ret[1])

\* C14: sanitize_html returns an empty or None input unchanged:
\* sanitize_html('') is '' and sanitize_html(None) is None.
C14_EmptyInputUnchanged ==
    call.op = "sanitize_html"
      => /\ call.html = None => ret = None
         /\ call.html = Some(<< >>) => ret = Some(<< >>)

FormattingTags == {S("b"), S("i"), S("u"), S("s")}

\* The names of the elements that a text opens.
ElementsOf(text) ==
    {lower(text[i].name) : i \in {i \in 1..Len(text) : text[i].type = "StartTag"}}

\* C19: sanitize_html keeps the formatting elements b, i, u and s: for input
\* containing <b>, <i>, <u> and <s> elements, each of these four tags is
\* present in the output.
C19_FormattingKept ==
    (/\ call.op = "sanitize_html"
     /\ call.html # None
     /\ FormattingTags \subseteq ElementsOf(call.html[1]))
      => FormattingTags \subseteq ElementsOf(ret[1])

\* C15: for every non-empty Markdown text, to_html(text) with
\* strip_unsafe=True equals sanitize_html applied to the renderer's output
\* for that text, and to_html(text, strip_unsafe=False) returns the
\* renderer's output as it is.
C15_ToHtmlSanitizes ==
    (call.op = "to_html" /\ call.text # << >>)
      => ret = IF call.strip_unsafe THEN Some(sanitize_html(Some(call.rendered)))
               ELSE Some(call.rendered)

\* The renderer hands on an image with a data: URL, which the sanitizer's
\* protocols let through, and to_html keeps it.
C15_Witness ==
    /\ call.op = "to_html"
    /\ call.text # << >>
    /\ call.strip_unsafe
    /\ call.rendered = << StartTag(TAG_IMG, << <<ATTR_SRC, S("data:image/png;base64,AA")>> >>) >>
    /\ ret = Some(<< [type |-> "EmptyTag", name |-> TAG_IMG,
                      data |-> << <<ATTR_SRC, S("data:image/png;base64,AA")>> >>] >>)

---------------------------------------------------------------------------
(* Properties of detect_file_type and of the txt rule (checked under       *)
(* SpecVerifier).                                                          *)

\* Some signature of the entry stands in the content at its offset.
EntryMatches(content, entry) ==
    \E j \in 1..Len(entry.signatures) :
        MatchesAt(content, entry.signatures[j][1], entry.signatures[j][2])

\* C16: detect_file_type returns 'webp' only for content that has RIFF at
\* offset 0 and WEBP at offset 8, also when the content is shorter than 12
\* bytes; it always returns a key of the table or None, and None when no
\* signature matches.
C16_WebpOnlyWithMarker ==
    call.op = "detect_file_type"
      => /\ ret \in {None} \cup {Some(k) : k \in SignatureKeys}
         /\ ret = Some(EXT_WEBP)
              => MatchesAt(call.content, RIFF, 0) /\ MatchesAt(call.content, WEBP, 8)
         /\ (\A k \in 1..Len(MAGIC_SIGNATURES) :
                ~EntryMatches(call.content, MAGIC_SIGNATURES[k]))
              => ret = None

\* The entry claims the content: one of its signatures stands at its offset
\* and, for webp, bytes 8..11 are not present with something other than WEBP
\* (the secondary check, which C16 is about).
EntryClaims(content, entry) ==
    /\ EntryMatches(content, entry)
    /\ entry.ext = EXT_WEBP
         => ~(Len(content) >= 12 /\ ~MatchesAt(content, WEBP, 8))

\* The extension of the first entry, in the order of the table, that claims
\* the content; None when no entry does.
FirstRegistered(content) ==
    LET claiming == {k \in 1..Len(MAGIC_SIGNATURES) :
                        EntryClaims(content, MAGIC_SIGNATURES[k])}
    IN  IF claiming = {} THEN None
        ELSE Some(MAGIC_SIGNATURES[CHOOSE k \in claiming :
                                       \A m \in claiming : k <= m].ext)

LIT_XML_DECL == S("<?xml")
EXT_JPG == S("jpg")

C18_TxtNulRule ==
    (call.op = "validate_magic_bytes" /\ call.claimed_extension = EXT_TXT)
      => LET nul == \E i \in 1..Len(call.content) :
                        i <= 1024 /\ call.content[i] = 0
         IN  /\ ret = IF nul THEN <<FALSE, None>>
                      ELSE <<TRUE, Some(MIME_TEXT_PLAIN)>>
             /\ call.content = << >> => ret[1]

\* 1024 bytes that are not NUL followed by a NUL byte are accepted as txt.
C18_Witness ==
    /\ call.op = "validate_magic_bytes"
    /\ call.claimed_extension = EXT_TXT
    /\ Len(call.content) = 1025
    /\ call.content[1025] = 0
    /\ ret = <<TRUE, Some(MIME_TEXT_PLAIN)>>

---------------------------------------------------------------------------
(* InMemoryRateLimiter (rate_limit.py).  time.time() is read as now, in    *)
(* whole seconds; it does not run backwards, and several calls can read    *)
(* the same value.  log is the history of the calls: it is not a field of  *)
(* the limiter.                                                            *)

WINDOW == 60
cleanup_interval == 60

\* The is_allowed calls of a behaviour, at most.
MaxCalls == 4

\* The instants at which calls are made, the rate keys and the limits.
Instants == {0, 1, 59, 60, 61, 120}
Keys == {"rate_limit:10.0.0.1::/api/auth/", "rate_limit:10.0.0.2::/api/auth/"}
Limits == {1, 2}

\* A limiter that keeps one list of timestamps whatever the key.
requests_get_any(reqs, key) ==
    IF DOMAIN reqs = {} THEN << >> ELSE reqs[CHOOSE k \in DOMAIN reqs : TRUE]

\* self.requests[key] of a defaultdict(list).
requests_get(reqs, key) == IF key \in DOMAIN reqs THEN reqs[key] ELSE << >>

\* [t for t in timestamps if t > cutoff]
newer_than(timestamps, cutoff) == SelectSeq(timestamps, LAMBDA t : t > cutoff)

\* _cleanup() at time t: the requests and last_cleanup it leaves.
cleanup(reqs, last, t) ==
    IF t - last < cleanup_interval THEN <<reqs, last>>
    ELSE LET cutoff == t - 60
             live == {k \in DOMAIN reqs : newer_than(reqs[k], cutoff) # << >>}
         IN  <<[k \in live |-> newer_than(reqs[k], cutoff)], t>>

\* is_allowed that answers an allowed request with the remaining count read
\* before the request was recorded.
is_allowed_remaining_before(reqs, last, key, limit, t) ==
    LET cleaned == cleanup(reqs, last, t)
        window_start == t - WINDOW
        current == newer_than(requests_get(cleaned[1], key), window_start)
        current_count == Len(current)
        remaining == Max(0, limit - current_count)
    IN  [requests |-> [k \in DOMAIN cleaned[1] \cup {key} |->
                          IF k # key THEN cleaned[1][k]
                          ELSE IF current_count >= limit THEN current
                               ELSE Append(current, t)],
         last_cleanup |-> cleaned[2],
         result |-> IF current_count >= limit THEN <<FALSE, remaining>>
                    ELSE <<TRUE, remaining>>]

\* is_allowed that records the request before it decides.
is_allowed_records_denied(reqs, last, key, limit, t) ==
    LET cleaned == cleanup(reqs, last, t)
        window_start == t - WINDOW
        current == newer_than(requests_get(cleaned[1], key), window_start)
        current_count == Len(current)
        remaining == Max(0, limit - current_count)
    IN  [requests |-> [k \in DOMAIN cleaned[1] \cup {key} |->
                          IF k # key THEN cleaned[1][k]
                          ELSE Append(current, t)],
         last_cleanup |-> cleaned[2],
         result |-> IF current_count >= limit THEN <<FALSE, remaining>>
                    ELSE <<TRUE, remaining - 1>>]

\* is_allowed that lets a request through while the count has not passed
\* the limit.
is_allowed_one_more(reqs, last, key, limit, t) ==
    LET cleaned == cleanup(reqs, last, t)
        window_start == t - WINDOW
        current == newer_than(requests_get(cleaned[1], key), window_start)
        current_count == Len(current)
        remaining == Max(0, limit - current_count)
        allowed == ~(current_count > limit)
    IN  [requests |-> [k \in DOMAIN cleaned[1] \cup {key} |->
                          IF k # key THEN cleaned[1][k]
                          ELSE IF allowed THEN Append(current, t) ELSE current],
         last_cleanup |-> cleaned[2],
         result |-> IF allowed THEN <<TRUE, remaining - 1>>
                    ELSE <<FALSE, remaining>>]

\* is_allowed(key, limit) at time t: the fields it leaves and its result.
is_allowed(reqs, last, key, limit, t) ==
    LET cleaned == cleanup(reqs, last, t)
        window_start == t - WINDOW
        current == newer_than(requests_get(cleaned[1], key), window_start)
        current_count == Len(current)
        remaining == Max(0, limit - current_count)
    IN  [requests |-> [k \in DOMAIN cleaned[1] \cup {key} |->
                          IF k # key THEN cleaned[1][k]
                          ELSE IF current_count >= limit THEN current
                               ELSE Append(current, t)],
         last_cleanup |-> cleaned[2],
         result |-> IF current_count >= limit THEN <<FALSE, remaining>>
                    ELSE <<TRUE, remaining - 1>>]

IsAllowed ==
    /\ Len(log) < MaxCalls
    /\ \E key \in Keys, limit \in Limits :
         LET after == is_allowed(requests, last_cleanup, key, limit, now)
         IN  /\ call' = [op |-> "is_allowed", key |-> key, limit |-> limit]
             /\ ret' = after.result
             /\ requests' = after.requests
             /\ last_cleanup' = after.last_cleanup
             /\ log' = Append(log, [key |-> key, limit |-> limit, at |-> now,
                                    allowed |-> after.result[1]])
    /\ UNCHANGED <<now, redis, uploads, records, credits>>

\* Time passes between two calls.
Tick ==
    /\ \E t \in Instants : t > now /\ now' = t
    /\ UNCHANGED <<call, ret, requests, last_cleanup, log, redis, uploads,
                   records, credits>>

NextLimiter == IsAllowed \/ Tick

SpecLimiter == Init /\ [][NextLimiter]_vars

---------------------------------------------------------------------------
(* Properties of the rate limiter (checked under SpecLimiter).             *)

\* The calls made with the key, in order.
CallsOf(key) == SelectSeq(log, LAMBDA c : c.key = key)

\* The calls with the key that were let through at an instant of the window
\* of 60 seconds that ends at w (w itself included, w - 60 not).
AllowedInWindow(key, w) ==
    {i \in 1..Len(log) : /\ log[i].key = key
                          /\ log[i].allowed
                          /\ log[i].at > w - 60
                          /\ log[i].at <= w}

\* C20: for any key and a fixed positive limit, after any sequence of
\* is_allowed calls the number of allowed requests whose timestamps fall in
\* any 60-second window never exceeds limit; in a burst (calls within one
\* window, starting with none recorded) exactly the first limit calls are
\* allowed and the calls after them, call limit + 1 first, are denied.
C20_AtMostLimitPerWindow ==
    \A key \in Keys, limit \in Limits :
        (\A i \in 1..Len(log) : log[i].key = key => log[i].limit = limit)
          => LET calls == CallsOf(key)
             IN  /\ \A w \in Instants :
                       Cardinality(AllowedInWindow(key, w)) <= limit
                 /\ (calls # << >> /\ calls[Len(calls)].at - calls[1].at < 60)
                      => \A j \in 1..Len(calls) : calls[j].allowed <=> j <= limit

\* A burst of three calls at limit 2: two are allowed, the third is denied.
C20_Witness ==
    /\ Len(log) = 3
    /\ \A i \in 1..3 : log[i].key = "rate_limit:10.0.0.1::/api/auth/"
                        /\ log[i].limit = 2 /\ log[i].at = 59
    /\ log[1].allowed /\ log[2].allowed /\ ~log[3].allowed
    /\ ret = <<FALSE, 0>>

---------------------------------------------------------------------------
(* The routes that store rich text: create_finding and update_finding      *)
(* (findings.py), the scan imports (imports.py), create_report and         *)
(* update_report (reports.py).  A row holds its id, its project and its    *)
(* rich-text columns; a column is None (NULL) or a text.                   *)

\* The rows of each table, at most.
MaxFindings == 1
MaxReports == 1

\* The projects of the database with the organization of their client.
ProjectOrganization == [p1 |-> "orgA"]
ProjectIds == {"p1", "p9"}

\* What the rich text editor sends: <b onclick="x()">Hi</b>
EDITOR_TEXT ==
    << StartTag(S("b"), << <<S("onclick"), S("x()")>> >>), Characters(S("Hi")),
       EndTag(S("b")) >>

\* The values of an optional rich-text field of a request.
RichTextFields == {None, Some(<< >>), Some(EDITOR_TEXT)}

\* The description, evidence and remediation of the requests that create or
\* update a finding, and of the findings of a scan export.
FindingFields ==
    { <<None, None, None>>,
      <<Some(<< >>), Some(EDITOR_TEXT), None>>,
      <<Some(EDITOR_TEXT), None, Some(<< >>)>>,
      <<None, Some(<< >>), Some(EDITOR_TEXT)>> }
ImportedFields ==
    { <<Some(<< >>), Some(EDITOR_TEXT), Some(<< >>)>>,
      <<Some(EDITOR_TEXT), Some(<< >>), Some(EDITOR_TEXT)>> }

\* current_user.organizationId and organization != current_user.organizationId
access_denied(current_user, organization) ==
    /\ current_user.organizationId # None
    /\ organization # current_user.organizationId[1]

\* sanitize_html(value) if value else None
sanitized_or_none(value) ==
    IF value = None \/ value[1] = << >> THEN None ELSE Some(sanitize_html(value))

\* sanitize_html(value) or None
sanitized_else_none(value) ==
    IF sanitize_html(value) = << >> THEN None ELSE Some(sanitize_html(value))

CreateFinding ==
    /\ Cardinality(findings) < MaxFindings
    /\ \E project_id \in ProjectIds, current_user \in Users,
          fields \in FindingFields :
         LET description == fields[1]
             evidence_text == fields[2]
             remediation == fields[3]
             row == [id |-> Cardinality(findings) + 1,
                     projectId |-> project_id,
                     description |-> sanitized_or_none(description),
                     evidence |-> sanitized_or_none(evidence_text),
                     remediation |-> sanitized_or_none(remediation)]
         IN  /\ call' = [op |-> "create_finding", project_id |-> project_id,
                         description |-> description, evidence |-> evidence_text,
                         remediation |-> remediation, current_user |-> current_user]
             /\ IF project_id \notin DOMAIN ProjectOrganization
                THEN /\ ret' = [status |-> 404, detail |-> "Project not found"]
                     /\ UNCHANGED findings
                ELSE IF access_denied(current_user, ProjectOrganization[project_id])
                     THEN /\ ret' = [status |-> 403, detail |-> "Access denied"]
                          /\ UNCHANGED findings
                     ELSE /\ findings' = findings \cup {row}
                          /\ ret' = [status |-> 201, row |-> row]
    /\ UNCHANGED <<reports, uploads, limiter, credits>>

UpdateFinding ==
    /\ \E finding_id \in 1..MaxFindings, current_user \in Users,
          fields \in FindingFields :
         LET description == fields[1]
             evidence_text == fields[2]
             remediation == fields[3]
             found == {f \in findings : f.id = finding_id}
             finding == CHOOSE f \in found : TRUE
             updated == [finding EXCEPT
                           !.description = IF description # None
                                           THEN Some(sanitize_html(description))
                                           ELSE @,
                           !.evidence = IF evidence_text # None
                                        THEN Some(sanitize_html(evidence_text))
                                        ELSE @,
                           !.remediation = IF remediation # None
                                           THEN Some(sanitize_html(remediation))
                                           ELSE @]
         IN  /\ call' = [op |-> "update_finding", finding_id |-> finding_id,
                         description |-> description, evidence |-> evidence_text,
                         remediation |-> remediation, current_user |-> current_user]
             /\ IF found = {}
                THEN /\ ret' = [status |-> 404, detail |-> "Finding not found"]
                     /\ UNCHANGED findings
                ELSE IF access_denied(current_user,
                                      ProjectOrganization[finding.projectId])
                     THEN /\ ret' = [status |-> 403, detail |-> "Access denied"]
                          /\ UNCHANGED findings
                     ELSE /\ findings' = (findings \ {finding}) \cup {updated}
                          /\ ret' = [status |-> 200, row |-> updated]
    /\ UNCHANGED <<reports, uploads, limiter, credits>>

\* import_burp_findings for an export that holds one new finding; the Nessus
\* and Qualys imports store their findings by the same statements.
ImportFindings ==
    /\ Cardinality(findings) < MaxFindings
    /\ \E project_id \in ProjectIds, current_user \in Users,
          fields \in ImportedFields :
         LET description == fields[1]
             evidence_text == fields[2]
             remediation == fields[3]
             row == [id |-> Cardinality(findings) + 1,
                     projectId |-> project_id,
                     description |-> sanitized_else_none(description),
                     evidence |-> sanitized_else_none(evidence_text),
                     remediation |-> sanitized_else_none(remediation)]
         IN  /\ call' = [op |-> "import_findings", project_id |-> project_id,
                         description |-> description, evidence |-> evidence_text,
                         remediation |-> remediation, current_user |-> current_user]
             /\ IF project_id \notin DOMAIN ProjectOrganization
                THEN /\ ret' = [status |-> 404, detail |-> "Project not found"]
                     /\ UNCHANGED findings
                ELSE IF access_denied(current_user, ProjectOrganization[project_id])
                     THEN /\ ret' = [status |-> 403, detail |-> "Access denied"]
                          /\ UNCHANGED findings
                     ELSE /\ findings' = findings \cup {row}
                          /\ ret' = [status |-> 200, row |-> row]
    /\ UNCHANGED <<reports, uploads, limiter, credits>>

CreateReport ==
    /\ Cardinality(reports) < MaxReports
    /\ \E project_id \in ProjectIds, current_user \in Users :
         LET row == [id |-> Cardinality(reports) + 1, projectId |-> project_id,
                     htmlContent |-> None]
         IN  /\ call' = [op |-> "create_report", project_id |-> project_id,
                         current_user |-> current_user]
             /\ IF project_id \notin DOMAIN ProjectOrganization
                THEN /\ ret' = [status |-> 404, detail |-> "Project not found"]
                     /\ UNCHANGED reports
                ELSE IF access_denied(current_user, ProjectOrganization[project_id])
                     THEN /\ ret' = [status |-> 403, detail |-> "Access denied"]
                          /\ UNCHANGED reports
                     ELSE /\ reports' = reports \cup {row}
                          /\ ret' = [status |-> 201, row |-> row]
    /\ UNCHANGED <<findings, uploads, limiter, credits>>

UpdateReport ==
    /\ \E report_id \in 1..MaxReports, current_user \in Users,
          html_content \in RichTextFields :
         LET found == {r \in reports : r.id = report_id}
             report == CHOOSE r \in found : TRUE
             updated == [report EXCEPT !.htmlContent = html_content]
         IN  /\ call' = [op |-> "update_report", report_id |-> report_id,
                         html_content |-> html_content,
                         current_user |-> current_user]
             /\ IF found = {}
                THEN /\ ret' = [status |-> 404, detail |-> "Report not found"]
                     /\ UNCHANGED reports
                ELSE IF access_denied(current_user,
                                      ProjectOrganization[report.projectId])
                     THEN /\ ret' = [status |-> 403, detail |-> "Access denied"]
                          /\ UNCHANGED reports
                     ELSE IF html_content = None
                          THEN /\ ret' = [status |-> 200, row |-> report]
                               /\ UNCHANGED reports
                          ELSE /\ reports' = (reports \ {report}) \cup {updated}
                               /\ ret' = [status |-> 200, row |-> updated]
    /\ UNCHANGED <<findings, uploads, limiter, credits>>

NextRichText ==
    CreateFinding \/ UpdateFinding \/ ImportFindings \/ CreateReport \/ UpdateReport

SpecRichText == Init /\ [][NextRichText]_vars

---------------------------------------------------------------------------
(* Properties of the rich-text routes (checked under SpecRichText).        *)

\* What a column may hold for a submitted value: sanitize_html of the value,
\* or NULL when that is the empty text.
SanitizedOf(submitted) ==
    {Some(sanitize_html(submitted))}
        \cup (IF sanitize_html(submitted) = << >> THEN {None} ELSE {})

\* The request was served and stored its row.
Stored(op) ==
    /\ call.op = op
    /\ ret.status \in {200, 201}

\* C13: every value that a route persists in a finding's description,
\* evidence or remediation column or in a report's htmlContent column is the
\* output of sanitize_html applied to the submitted value, on the create,
\* update and import paths.
C13_StoredSanitized ==
    /\ \A op \in {"create_finding", "import_findings"} :
         Stored(op)
           => /\ ret.row \in findings
              /\ ret.row.description \in SanitizedOf(call.description)
              /\ ret.row.evidence \in SanitizedOf(call.evidence)
              /\ ret.row.remediation \in SanitizedOf(call.remediation)
    /\ Stored("update_finding")
         => /\ ret.row \in findings
            /\ call.description # None
                 => ret.row.description \in SanitizedOf(call.description)
            /\ call.evidence # None
                 => ret.row.evidence \in SanitizedOf(call.evidence)
            /\ call.remediation # None
                 => ret.row.remediation \in SanitizedOf(call.remediation)
    /\ (Stored("update_report") /\ call.html_content # None)
         => /\ ret.row \in reports
            /\ ret.row.htmlContent \in SanitizedOf(call.html_content)

---------------------------------------------------------------------------
(* Properties of the answers of is_allowed (checked under SpecLimiter).    *)

\* The call that was answered last, and the timestamps the limiter holds
\* for its key within the window of that call.
LastCall == log[Len(log)]
RecordedInWindow ==
    newer_than(requests_get(requests, call.key), LastCall.at - WINDOW)

\* C21: is_allowed never returns a negative remaining value; when it allows
\* a request, remaining equals limit minus the number of requests recorded
\* for the key in the current window, this one included; when it denies a
\* request, remaining is 0.
C21_RemainingCount ==
    call.op = "is_allowed"
      => /\ ret[2] >= 0
         /\ ret[1] => ret[2] = call.limit - Len(RecordedInWindow)
         /\ ~ret[1] => ret[2] = 0

\* The second request of a key at limit 2 is allowed, one request of the
\* key being 59 seconds old: none remains.
C21_Witness ==
    /\ call.op = "is_allowed" /\ call.limit = 2
    /\ ret = <<TRUE, 0>>
    /\ Len(RecordedInWindow) = 2
    /\ LastCall.at = 59
    /\ RecordedInWindow[1] = 0

\* The allowed calls made with the key of call i before it, at most 60
\* seconds before it (60 itself excluded).
AllowedBefore(i) ==
    {j \in 1..(i - 1) : /\ log[j].key = log[i].key
                        /\ log[j].allowed
                        /\ log[j].at > log[i].at - 60}

\* C23: the limit resets after the window: a key that has been denied is
\* allowed again as soon as fewer than limit of its allowed requests lie
\* within the last 60 seconds, however many denied calls were made in the
\* meantime; denied calls are not recorded and do not extend the block.
C23_ResetAfterWindow ==
    \A i \in 1..Len(log) :
        log[i].allowed <=> Cardinality(AllowedBefore(i)) < log[i].limit

\* A key at limit 1 is allowed at 0, denied at 1 and at 59, and allowed
\* again at 60.
C23_Witness ==
    /\ Len(log) = 4
    /\ \A i \in 1..4 : log[i].key = "rate_limit:10.0.0.1::/api/auth/"
                        /\ log[i].limit = 1
    /\ log[1].at = 0 /\ log[2].at = 1 /\ log[3].at = 59 /\ log[4].at = 60
    /\ log[1].allowed /\ ~log[2].allowed /\ ~log[3].allowed /\ log[4].allowed

\* The calls of a history made with the key, in order.
CallsIn(history, key) == SelectSeq(history, LAMBDA c : c.key = key)

\* A limiter that is given the first n calls of a history and nothing else,
\* from its construction at instant 0: its fields and its last answer.
RECURSIVE Replayed(_, _)
Replayed(history, n) ==
    IF n = 0 THEN [requests |-> << >>, last_cleanup |-> 0, result |-> << >>]
    ELSE LET before == Replayed(history, n - 1)
             c == history[n]
         IN  is_allowed(before.requests, before.last_cleanup, c.key, c.limit,
                        c.at)

\* C22: rate-limit keys are independent: a call is_allowed(k1, ...) never
\* changes the verdict or the remaining value that a later is_allowed(k2,
\* ...) returns for k2 different from k1 (every answer is the answer of a
\* limiter that was only ever called with that key), and its only effect on
\* the timestamps of another key is the removal of those that have left the
\* window of 60 seconds.
C22_KeysIndependent ==
    [][log' # log
         => LET c == log'[Len(log')]
                own == CallsIn(log', c.key)
            IN  /\ ret' = Replayed(own, Len(own)).result
                /\ \A k \in Keys \ {c.key} :
                      LET held == requests_get(requests, k)
                          left == requests_get(requests', k)
                      IN  /\ left \in {held, newer_than(held, c.at - WINDOW)}
                          /\ newer_than(left, c.at - WINDOW)
                               = newer_than(held, c.at - WINDOW)]_vars

\* The first key is at its limit of 1 and the second key, called at the same
\* instant, is allowed with nothing remaining.
C22_Witness ==
    /\ Len(log) = 3
    /\ log[1].key = "rate_limit:10.0.0.1::/api/auth/" /\ log[1].allowed
    /\ log[2].key = "rate_limit:10.0.0.1::/api/auth/" /\ ~log[2].allowed
    /\ log[3].key = "rate_limit:10.0.0.2::/api/auth/" /\ log[3].limit = 1
    /\ log[3].at = log[1].at
    /\ ret = <<TRUE, 0>>

\* A call with the second key at 60 removes the first key's timestamp of 0.
C22_Removal ==
    /\ Len(log) = 2
    /\ log[1].key = "rate_limit:10.0.0.1::/api/auth/" /\ log[1].at = 0
    /\ log[2].key = "rate_limit:10.0.0.2::/api/auth/" /\ log[2].at = 60
    /\ "rate_limit:10.0.0.1::/api/auth/" \notin DOMAIN requests

---------------------------------------------------------------------------
(* RedisRateLimiter (rate_limit.py).  The sorted set of a key holds one    *)
(* member str(now) with score now for each instant at which the key was    *)
(* called; the key is gone window_size + 1 seconds after it was last       *)
(* touched.  The pipeline is one transaction.                              *)

window_size == 60

\* The members of the key's sorted set at time t (none once it expired).
zmembers(db, key, t) ==
    IF key \in DOMAIN db /\ t < db[key].expires THEN db[key].members ELSE {}

\* RedisRateLimiter.is_allowed(key, limit) at time t: the database it
\* leaves and its result.
redis_is_allowed(db, key, limit, t) ==
    LET window_start == t - window_size
        \* zremrangebyscore(key, 0, window_start)
        kept == {m \in zmembers(db, key, t) : ~(0 <= m /\ m <= window_start)}
        \* zcard(key)
        current_count == Cardinality(kept)
        remaining == Max(0, limit - current_count)
    IN  [redis |-> [k \in DOMAIN db \cup {key} |->
                      IF k # key THEN db[k]
                      \* zadd(key, {str(now): now}); expire(key, 61)
                      ELSE [members |-> kept \cup {t},
                            expires |-> t + window_size + 1]],
         result |-> IF current_count >= limit THEN <<FALSE, remaining>>
                    ELSE <<TRUE, remaining>>]

RedisIsAllowed ==
    /\ Len(log) < MaxCalls
    /\ \E key \in Keys, limit \in Limits :
         LET after == redis_is_allowed(redis, key, limit, now)
         IN  /\ call' = [op |-> "redis_is_allowed", key |-> key,
                         limit |-> limit]
             /\ ret' = after.result
             /\ redis' = after.redis
             /\ log' = Append(log, [key |-> key, limit |-> limit, at |-> now,
                                    allowed |-> after.result[1]])
    /\ UNCHANGED <<now, requests, last_cleanup, uploads, records, credits>>

NextRedis == RedisIsAllowed \/ Tick

SpecRedis == Init /\ [][NextRedis]_vars

\* C29: RedisRateLimiter and InMemoryRateLimiter are observably equivalent:
\* for every sequence of requests with the same keys, limits and timestamps
\* the Redis limiter returns the verdict and the remaining value that the
\* in-memory limiter returns for each request, and both count the same
\* requests in the window (a denied request is counted by neither).
C29_LimitersEquivalent ==
    call.op = "redis_is_allowed"
      => LET memory == Replayed(log, Len(log))
             window_start == LastCall.at - WINDOW
         IN  /\ ret = memory.result
             /\ Cardinality({m \in zmembers(redis, call.key, LastCall.at) :
                               m > window_start})
                  = Len(newer_than(requests_get(memory.requests, call.key),
                                   window_start))

---------------------------------------------------------------------------
(* The detected type of a rejected content (checked under SpecVerifier).   *)

\* The extension of the filename as validate_upload reads it.
ExtensionOf(filename) == lower(rsplit_last(filename, DOT))

\* C30: whenever validate_magic_bytes rejects content and reports a
\* detected type, the detected type differs from the normalised claimed
\* extension, so validate_upload never reports that a file appears to be
\* the very type it was rejected as.
C30_DetectedTypeDiffers ==
    /\ (call.op = "validate_magic_bytes" /\ ~ret[1] /\ ret[2] # None)
         => ret[2][1] # normalise_ext(call.claimed_extension)
    /\ (call.op = "validate_upload"
          /\ DOT \in {call.filename[i] : i \in 1..Len(call.filename)})
         => ret # <<FALSE, msg_mismatch(ExtensionOf(call.filename))>>

---------------------------------------------------------------------------
(* ai.py: generate_ai_content.  A request is a coroutine: it gives way at  *)
(* every await, so the requests of several clients interleave between the  *)
(* database calls.  One action is one database call (or the call of the AI *)
(* service) together with the code that follows it up to the next await.   *)

COST_MAP ==
    [generate_finding |-> 5, remediation |-> 5, fix_grammar |-> 1,
     rewrite |-> 1, expand |-> 1, generate_summary |-> 10, translate |-> 2]

\* The requests sent: the operation type and which optional fields are set.
\* The last one is sent by a user of no organization.
AiInputs ==
    { [type |-> "generate_finding", finding_title |-> TRUE, text |-> FALSE,
       target_language |-> FALSE, organizationId |-> Some("orgA")],
      [type |-> "remediation", finding_title |-> FALSE, text |-> FALSE,
       target_language |-> FALSE, organizationId |-> Some("orgA")],
      [type |-> "fix_grammar", finding_title |-> FALSE, text |-> TRUE,
       target_language |-> FALSE, organizationId |-> Some("orgA")],
      [type |-> "translate", finding_title |-> FALSE, text |-> TRUE,
       target_language |-> FALSE, organizationId |-> Some("orgA")],
      [type |-> "generate_summary", finding_title |-> FALSE, text |-> FALSE,
       target_language |-> FALSE, organizationId |-> Some("orgA")],
      [type |-> "summarize", finding_title |-> TRUE, text |-> TRUE,
       target_language |-> TRUE, organizationId |-> Some("orgA")],
      [type |-> "rewrite", finding_title |-> FALSE, text |-> TRUE,
       target_language |-> FALSE, organizationId |-> None] }

\* The organizations of the database.
Organizations == {"orgA"}

HTTP_200 == 200
HTTP_400 == 400
HTTP_402 == 402
HTTP_403 == 403
HTTP_404 == 404
HTTP_500 == 500

\* The field the operation requires and the request does not hold: the
\* checks made before the AI service is called.
required_field_missing(request) ==
    CASE request.type \in {"generate_finding", "remediation"}
           -> ~request.finding_title
      [] request.type \in {"fix_grammar", "rewrite", "expand"}
           -> ~request.text
      [] request.type = "translate"
           -> ~request.text \/ ~request.target_language
      [] OTHER -> FALSE

\* What a step of a request leaves alone.
AiFrame ==
    /\ call' = [op |-> "generate_ai_content"]
    /\ UNCHANGED <<ret, hooks, uploads, records, limiter>>

\* The request is read and the organization is looked up (find_unique).
AiFindOrganization(r) ==
    /\ ai[r].pc = "idle"
    /\ \E request \in AiInputs :
         LET done(code) == [pc |-> "done", request |-> request,
                            status |-> code]
         IN  ai' = [ai EXCEPT ![r] =
                IF request.type \notin DOMAIN COST_MAP THEN done(HTTP_400)
                ELSE IF request.organizationId = None THEN done(HTTP_403)
                ELSE IF request.organizationId[1] \notin Organizations
                     THEN done(HTTP_404)
                ELSE IF creditBalance < COST_MAP[request.type]
                     THEN done(HTTP_402)
                ELSE [pc |-> "decrement", request |-> request,
                      cost |-> COST_MAP[request.type]]]
    /\ UNCHANGED <<creditBalance, aiusagelog>>
    /\ AiFrame

\* db.organization.update(creditBalance: {decrement: cost})
AiDecrement(r) ==
    /\ ai[r].pc = "decrement"
    /\ creditBalance' = creditBalance - ai[r].cost
    /\ ai' = [ai EXCEPT ![r] = [@ EXCEPT !.pc = "log"] @@
                                 [updated_org |-> creditBalance']]
    /\ UNCHANGED aiusagelog
    /\ AiFrame

\* db.aiusagelog.create, then the checks of the required fields.
AiLogUsage(r) ==
    /\ ai[r].pc = "log"
    /\ aiusagelog' = aiusagelog \cup {[request |-> r,
                                       action |-> ai[r].request.type,
                                       cost |-> ai[r].cost]}
    /\ ai' = [ai EXCEPT ![r] =
                IF required_field_missing(ai[r].request)
                THEN [@ EXCEPT !.pc = "done"] @@ [status |-> HTTP_400]
                ELSE [@ EXCEPT !.pc = "generate"]]
    /\ UNCHANGED creditBalance
    /\ AiFrame

\* The AI service answers with a text, or raises RuntimeError.
AiGenerate(r) ==
    /\ ai[r].pc = "generate"
    /\ \E answered \in BOOLEAN :
         ai' = [ai EXCEPT ![r] =
                  IF answered
                  THEN [@ EXCEPT !.pc = "done"]
                         @@ [status |-> HTTP_200, credits_used |-> ai[r].cost,
                             remaining_credits |-> ai[r].updated_org]
                  ELSE [@ EXCEPT !.pc = "refund"]]
    /\ UNCHANGED <<creditBalance, aiusagelog>>
    /\ AiFrame

\* except RuntimeError: db.organization.update(creditBalance: {increment})
AiRefund(r) ==
    /\ ai[r].pc = "refund"
    /\ creditBalance' = creditBalance + ai[r].cost
    /\ ai' = [ai EXCEPT ![r] = [@ EXCEPT !.pc = "done"]
                                 @@ [status |-> HTTP_500]]
    /\ UNCHANGED aiusagelog
    /\ AiFrame

NextAi ==
    \E r \in AiRequests :
        \/ AiFindOrganization(r)
        \/ AiDecrement(r)
        \/ AiLogUsage(r)
        \/ AiGenerate(r)
        \/ AiRefund(r)

SpecAi == Init /\ [][NextAi]_vars

---------------------------------------------------------------------------
(* Properties of generate_ai_content (checked under SpecAi).               *)

\* C24: under every interleaving of concurrent generate_ai_content requests
\* of one organization the creditBalance never becomes negative: a request
\* is charged only if the balance at the moment of the decrement is at least
\* the cost of the operation.
C24_BalanceNeverNegative ==
    [][/\ creditBalance' >= 0
       /\ \A r \in AiRequests :
             (ai[r].pc = "decrement" /\ ai'[r].pc = "log")
               => creditBalance >= ai[r].cost]_vars

\* What the request has been charged for good: the cost of a request that
\* returned a result.
Charged(r) ==
    IF ai[r].pc = "done" /\ ai[r].status = HTTP_200 THEN ai[r].cost ELSE 0

RECURSIVE ChargedUpTo(_)
ChargedUpTo(n) == IF n = 0 THEN 0 ELSE Charged(n) + ChargedUpTo(n - 1)

\* C28: a generate_ai_content request that ends in an error response leaves
\* the creditBalance as it was before the request: once no request is in
\* flight, the credits deducted are those of the requests that returned a
\* result.
C28_ErrorsLeaveBalance ==
    (\A r \in AiRequests : ai[r].pc \in {"idle", "done"})
      => creditBalance = FREE_CREDITS - ChargedUpTo(MaxAiRequests)

---------------------------------------------------------------------------
(* The Paddle webhooks: POST /api/v1/webhooks/paddle (webhooks.py) and     *)
(* POST /api/webhook (billing.py), for a transaction.completed event with  *)
(* one item whose signature was accepted.  Of the organization's row the   *)
(* creditBalance column is kept.  One action is one database call with the *)
(* code around it.                                                         *)

PRICE_TO_PLAN ==
    [pri_01kb5da0e4hwhrynm8tf1a8atg |-> "PRO",
     pri_01kb5djzbeyaev2k64nzkayfbx |-> "PRO",
     pri_01kb5dphg35030j7e9crrcqxd8 |-> "AGENCY"]

PRICE_TO_CREDITS ==
    [pri_01kb5dww39pc83mag1x8dtrzyw |-> 500,
     pri_01kb5e09hfcpdpzxvxmzg3c179 |-> 2000,
     pri_01kb5e09hfcpdpzvxvnmzg3c179 |-> 2000]

PLAN_CREDITS == [FREE |-> 10, PRO |-> 500, AGENCY |-> 2000]

\* billing.py, determine_credits_from_items
CREDIT_PACK_MAP ==
    [pri_01kb5dww39pc83mag1x8dtrzyw |-> 500,
     pri_01kb5e09hfcpdpzxvxmzg3c179 |-> 2000]

\* The events received: a starter pack, two pro packs, a plan, a price that
\* is not known, and a starter pack without the organization's id; each by
\* either route.
EventItems ==
    { [organization_id |-> Some("orgA"),
       price_id |-> "pri_01kb5dww39pc83mag1x8dtrzyw", quantity |-> 1],
      [organization_id |-> Some("orgA"),
       price_id |-> "pri_01kb5e09hfcpdpzxvxmzg3c179", quantity |-> 2],
      [organization_id |-> Some("orgA"),
       price_id |-> "pri_01kb5dphg35030j7e9crrcqxd8", quantity |-> 1],
      [organization_id |-> Some("orgA"),
       price_id |-> "pri_unknown", quantity |-> 1],
      [organization_id |-> None,
       price_id |-> "pri_01kb5dww39pc83mag1x8dtrzyw", quantity |-> 1] }

\* total_credits of determine_credits_from_items for the one item.
determine_credits_from_items(item) ==
    IF item.price_id \in DOMAIN CREDIT_PACK_MAP
    THEN CREDIT_PACK_MAP[item.price_id] * item.quantity
    ELSE 0

\* What a step of a webhook leaves alone.
HookFrame ==
    /\ call' = [op |-> "paddle_webhook"]
    /\ UNCHANGED <<ret, aiusagelog, ai, uploads, records, limiter>>

\* webhooks.py, handle_transaction_completed: the plan's credits are set,
\* or the pack's credits are added by an atomic increment.
HandleTransactionCompleted(e) ==
    /\ hooks[e].pc = "idle"
    /\ \E item \in EventItems :
         LET ended(result, amount) ==
                 [pc |-> "done", route |-> "webhooks", item |-> item,
                  status |-> result, credits |-> amount]
         IN  IF item.organization_id = None
             THEN /\ hooks' = [hooks EXCEPT ![e] = ended("ignored", 0)]
                  /\ UNCHANGED creditBalance
             ELSE IF item.price_id \in DOMAIN PRICE_TO_PLAN
             THEN /\ creditBalance' = PLAN_CREDITS[PRICE_TO_PLAN[item.price_id]]
                  /\ hooks' = [hooks EXCEPT ![e] = ended("success", 0)]
             ELSE IF item.price_id \in DOMAIN PRICE_TO_CREDITS
             THEN LET amount == PRICE_TO_CREDITS[item.price_id]
                  IN  /\ creditBalance' = creditBalance + amount
                      /\ hooks' = [hooks EXCEPT ![e] = ended("success", amount)]
             ELSE /\ hooks' = [hooks EXCEPT ![e] = ended("ignored", 0)]
                  /\ UNCHANGED creditBalance
    /\ HookFrame

\* billing.py, handle_transaction_completed: the credits are determined
\* and the organization is read (find_unique).
BillingFindOrganization(e) ==
    /\ hooks[e].pc = "idle"
    /\ \E item \in EventItems :
         LET credits_purchased == determine_credits_from_items(item)
         IN  hooks' = [hooks EXCEPT ![e] =
                 IF /\ item.organization_id # None
                    /\ item.organization_id[1] \in Organizations
                 THEN [pc |-> "update", route |-> "billing", item |-> item,
                       credits |-> credits_purchased,
                       org |-> [creditBalance |-> creditBalance]]
                 ELSE [pc |-> "done", route |-> "billing", item |-> item,
                       status |-> "success", credits |-> 0]]
    /\ UNCHANGED creditBalance
    /\ HookFrame

\* billing.py, handle_transaction_completed: the organization is written
\* with creditBalance: org.creditBalance + credits_purchased.
BillingUpdateOrganization(e) ==
    /\ hooks[e].pc = "update"
    /\ creditBalance' = hooks[e].org.creditBalance + hooks[e].credits
    /\ hooks' = [hooks EXCEPT ![e] =
                   [pc |-> "done", route |-> "billing", item |-> hooks[e].item,
                    status |-> "success", credits |-> hooks[e].credits]]
    /\ HookFrame

NextWebhooks ==
    \E e \in Events :
        \/ HandleTransactionCompleted(e)
        \/ BillingFindOrganization(e)
        \/ BillingUpdateOrganization(e)

SpecWebhooks == Init /\ [][NextWebhooks]_vars

---------------------------------------------------------------------------
(* Properties of the webhooks (checked under SpecWebhooks).                *)

\* The event was a purchase of a credit pack for the organization.
CreditPack(e) ==
    /\ hooks[e].pc = "done"
    /\ hooks[e].item.organization_id # None
    /\ hooks[e].item.price_id \in DOMAIN PRICE_TO_CREDITS

RECURSIVE CreditsUpTo(_)
CreditsUpTo(n) ==
    IF n = 0 THEN 0
    ELSE (IF hooks[n].pc = "done" THEN hooks[n].credits ELSE 0)
           + CreditsUpTo(n - 1)

\* C25: concurrent webhook calls do not lose credits: when several
\* transaction.completed credit-pack events of one organization are
\* processed concurrently, by either webhook handler, the final
\* creditBalance is the initial balance plus the sum of the credits of all
\* processed events.
C25_NoCreditsLost ==
    (\A e \in Events : hooks[e].pc = "idle" \/ CreditPack(e))
      => creditBalance = FREE_CREDITS + CreditsUpTo(MaxEvents)

---------------------------------------------------------------------------
(* sanitize_svg and the route that calls it.                               *)

NextSvgUpload == SanitizeSvg \/ UploadScreenshot

SpecSvgUpload == Init /\ [][NextSvgUpload]_vars

LESS == Ord("<")
SLASH == Ord("/")

\* Position i of text lies in a tag: after a '<' that no '>' has closed.
InTag(text, i) ==
    \E j \in 1..(i - 1) :
        text[j] = LESS /\ \A k \in (j + 1)..(i - 1) : text[k] # GT

\* What follows the spaces at position i of text.
AfterSpaces(text, i) == i + SpaceRun(text, i)

\* A <script start tag stands at position i.
ScriptElementAt(text, i) ==
    /\ CiAt(text, i, LIT_SCRIPT_OPEN)
    /\ LET next == i + Len(LIT_SCRIPT_OPEN)
       IN  next > Len(text) \/ IsSpace(text[next]) \/ text[next] \in {GT, SLASH}

\* An attribute whose name starts with 'on' stands at position i of a tag
\* and is given a value.
HandlerAttributeAt(text, i) ==
    /\ i > 1
    /\ InTag(text, i)
    /\ IsSpace(text[i - 1]) \/ text[i - 1] \in QUOTES \cup {SLASH}
    /\ CiAt(text, i, LIT_ON)
    /\ LET eq == AfterSpaces(text, i + WordRun(text, i))
       IN  eq <= Len(text) /\ text[eq] = EQUALS

\* An href, src or xlink:href attribute stands at position i of a tag and
\* its value starts with javascript:
ScriptUrlAt(text, i) ==
    /\ InTag(text, i)
    /\ \E k \in 1..Len(JS_ATTRS) :
          /\ CiAt(text, i, JS_ATTRS[k])
          /\ LET eq == AfterSpaces(text, i + Len(JS_ATTRS[k]))
                 value == AfterSpaces(text, eq + 1)
                 start == IF value <= Len(text) /\ text[value] \in QUOTES
                          THEN AfterSpaces(text, value + 1) ELSE value
             IN  /\ eq <= Len(text) /\ text[eq] = EQUALS
                 /\ CiAt(text, start, LIT_JAVASCRIPT)

\* The text holds none of the three.
SvgClean(text) ==
    \A i \in 1..Len(text) :
        /\ ~ScriptElementAt(text, i)
        /\ ~HandlerAttributeAt(text, i)
        /\ ~ScriptUrlAt(text, i)

\* upload_screenshot wrote the file it was sent.
ScreenshotWritten ==
    /\ call.op = "upload_screenshot"
    /\ "status" \in DOMAIN ret /\ ret.status = 200

\* C26: for every input the output of sanitize_svg contains no <script>
\* element, no attribute whose name starts with 'on' and no href, src or
\* xlink:href attribute whose value starts with javascript:; and
\* upload_screenshot writes every file with extension svg or content type
\* image/svg+xml to storage in its sanitize_svg form only.
C26_SvgOutputClean ==
    /\ call.op = "sanitize_svg" => SvgClean(ret)
    /\ (ScreenshotWritten
          /\ \/ call.file.content_type = Some(CT_SVG)
             \/ get_file_extension(call.file.filename) = EXT_SVG)
         => [name |-> ret.filename, content |-> sanitize_svg(call.file.content)]
              \in files

---------------------------------------------------------------------------
(* rich_text_service.py: truncate.                                         *)

SPACE == Ord(" ")
ELLIPSIS == S("...")

\* text.rsplit(sep, 1)[0]: what stands before the last sep, or the text.
rsplit_first(text, sep) ==
    LET at == rfind(text, sep)
    IN  IF at = -1 THEN text ELSE SubSeq(text, 1, at)

\* truncate(text, max_length, suffix); text is None or a string.
truncate(text, max_length, suffix) ==
    IF text = None \/ text[1] = << >> \/ Len(text[1]) <= max_length
    THEN IF text = None THEN << >> ELSE text[1]
    ELSE LET truncated == rsplit_first(Slice(text[1], 0, max_length), SPACE)
         IN  truncated \o suffix

\* The longest text given to truncate.
MaxTextLen == 5

RECURSIVE Words(_)
Words(n) ==
    IF n = 0 THEN {<< >>}
    ELSE LET shorter == Words(n - 1)
         IN  shorter \cup {w \o c : w \in shorter, c \in {S("a"), <<SPACE>>}}

TruncateTexts == {None} \cup {Some(w) : w \in Words(MaxTextLen)}
Suffixes == {ELLIPSIS, << >>, S("~")}

Truncate ==
    /\ call.op = "idle"
    /\ \E text \in TruncateTexts, max_length \in 0..(MaxTextLen + 1),
          suffix \in Suffixes :
         /\ call' = [op |-> "truncate", text |-> text,
                     max_length |-> max_length, suffix |-> suffix]
         /\ ret' = truncate(text, max_length, suffix)
         /\ UNCHANGED <<uploads, records, limiter, credits>>

SpecTruncate == Init /\ [][Truncate]_vars

\* C27: truncate(text, max_length, suffix) truncates to a maximum length:
\* for every text and every max_length the result has length at most
\* max_length, and a text of length <= max_length is returned unchanged.
C27_AtMostMaxLength ==
    (call.op = "truncate" /\ call.text # None)
      => /\ Len(ret) <= call.max_length
         /\ Len(call.text[1]) <= call.max_length => ret = call.text[1]

=============================================================================
